---- MODULE Spec2Model ----
(***************************************************************************)
(* Verification model of khivedev:                                         *)
(*   - StatisticalAnalyzer / MemoryMCPBenchmark / ComparisonAnalyzer of    *)
(*     live-stream/2025_07_29/memory_mcp_flow0/researcher/                 *)
(*     memory_performance_benchmark.py                                     *)
(*   - the pre_edit and pre_agent_spawn hook entry points of               *)
(*     libs/khive_claude/src/khive_claude/hooks/                           *)
(*                                                                         *)
(* Numbers.  Python floats are modelled by exact rationals <<n, d>> with   *)
(* d > 0 in lowest terms.  Values that involve a square root (standard     *)
(* deviation, confidence bounds) are kept exact as  base + coef*sqrt(rad). *)
(* Time is counted in ticks of 0.1 s.                                      *)
(***************************************************************************)
EXTENDS Integers, Sequences, FiniteSets, TLC

\* ------------------------------------------------------------------------
\* Bounds of the model
\* ------------------------------------------------------------------------
MaxLen == 3

\* ------------------------------------------------------------------------
\* Exact rational arithmetic (Python float arithmetic without rounding)
\* ------------------------------------------------------------------------
Abs(x) == IF x < 0 THEN -x ELSE x

RECURSIVE Gcd(_, _)
Gcd(a, b) == IF b = 0 THEN a ELSE Gcd(b, a % b)

Norm(n, d) ==
    LET s == IF d < 0 THEN -1 ELSE 1
        g == Gcd(Abs(n), Abs(d))
    IN  IF n = 0 THEN <<0, 1>> ELSE <<(s * n) \div g, (s * d) \div g>>

Rat(i) == <<i, 1>>
Zero == <<0, 1>>
RAdd(x, y) == Norm(x[1] * y[2] + y[1] * x[2], x[2] * y[2])
RSub(x, y) == Norm(x[1] * y[2] - y[1] * x[2], x[2] * y[2])
RMul(x, y) == Norm(x[1] * y[1], x[2] * y[2])
\* Python float division; the caller decides what a zero divisor does
RDiv(x, y) == Norm(x[1] * y[2], x[2] * y[1])
RLe(x, y) == x[1] * y[2] <= y[1] * x[2]
RLt(x, y) == x[1] * y[2] < y[1] * x[2]

\* base + coef * sqrt(rad), canonical when the root vanishes
Surd(base, coef, rad) ==
    IF coef = Zero \/ rad = Zero
    THEN [base |-> base, coef |-> Zero, rad |-> Zero]
    ELSE [base |-> base, coef |-> coef, rad |-> rad]

RECURSIVE RSum(_)
RSum(data) == IF data = <<>> THEN Zero ELSE RAdd(Head(data), RSum(Tail(data)))

\* sorted(data): insertion sort, ascending
RECURSIVE Insert(_, _)
Insert(x, sorted) ==
    IF sorted = <<>> THEN <<x>>
    ELSE IF RLe(x, Head(sorted)) THEN <<x>> \o sorted
         ELSE <<Head(sorted)>> \o Insert(x, Tail(sorted))

\* mutant: the data is used in the order given
Sorted_not(data) == data

RECURSIVE Sorted(_)
Sorted(data) == IF data = <<>> THEN <<>> ELSE Insert(Head(data), Sorted(Tail(data)))

\* mutant: the middle value stands for the mean
Mean_as_middle(data) == Sorted(data)[(Len(data) + 1) \div 2]

\* statistics.mean
Mean(data) == RDiv(RSum(data), Rat(Len(data)))

\* statistics.median: middle element, or the mean of the two middle ones
Median(data) ==
    LET a == Sorted(data)
        n == Len(data)
    IN  IF n % 2 = 1 THEN a[(n + 1) \div 2]
        ELSE RDiv(RAdd(a[n \div 2], a[n \div 2 + 1]), Rat(2))

\* sample variance, sum((x - mean)^2) / (n - 1); statistics.stdev is its root
Variance(data) ==
    LET m == Mean(data)
        sq == [i \in 1..Len(data) |-> RMul(RSub(data[i], m), RSub(data[i], m))]
    IN  RDiv(RSum(sq), Rat(Len(data) - 1))

Stdev(data) == Surd(Zero, Rat(1), Variance(data))

\* scipy.stats.t.ppf(0.975, df), in thousandths
TPpf975(df) ==
    CASE df = 1 -> Norm(12706, 1000)
      [] df = 2 -> Norm(4303, 1000)
      [] df = 3 -> Norm(3182, 1000)
      [] df = 4 -> Norm(2776, 1000)
      [] df = 5 -> Norm(2571, 1000)
      [] OTHER  -> Norm(2447, 1000)

\* ------------------------------------------------------------------------
\* Values shared by the components
\* ------------------------------------------------------------------------
\* Optional[str]: None is <<>>, the string s is <<s>>
None == <<>>
Some(s) == <<s>>

\* the outcome of a call: a returned value or a raised exception
Return(v) == [ok |-> TRUE, exc |-> "", val |-> v]
Raise(e) == [ok |-> FALSE, exc |-> e, val |-> <<>>]

\* PerformanceMetric.  latency_ms is in ms, timestamp in ticks of 0.1 s.
\* user, seq, started and raised are history fields: the task and iteration
\* that produced the record, the tick at which its measurement started, and
\* whether the measured action raised; cause is str(e) of what it raised.
PerformanceMetric(op, lat, thr, mem, ts, users, size, err, u, i, st, r, c) ==
    [operation |-> op, latency_ms |-> lat, throughput_ops_per_sec |-> thr,
     memory_usage_mb |-> mem, timestamp |-> ts, concurrent_users |-> users,
     dataset_size |-> size, error |-> err,
     user |-> u, seq |-> i, started |-> st, raised |-> r, cause |-> c]

\* ------------------------------------------------------------------------
\* MemoryMCPBenchmark.measure_operation
\* ------------------------------------------------------------------------
\* What awaiting operation_func() can do: return, or raise an Exception e
\* whose str(e) is msg
Returned == [raised |-> FALSE, msg |-> ""]
Raised(msg) == [raised |-> TRUE, msg |-> msg]

\* ticks of 0.1 s in one second, and milliseconds in one tick
TicksPerSecond == 10
MsPerTick == 100

\* mutant: an exception of the awaited action leaves measure_operation
measure_operation_propagates(operation, outcome, start_time, end_time, memory, dataset_size, users, u, i) ==
    IF outcome.raised THEN Raise("Exception")
    ELSE Return(PerformanceMetric(operation,
                    Rat((end_time - start_time) * MsPerTick),
                    IF end_time > start_time
                    THEN Norm(TicksPerSecond, end_time - start_time) ELSE Zero,
                    memory, end_time, users, dataset_size, None,
                    u, i, start_time, FALSE, ""))

\* The part of measure_operation after the awaited action has finished with
\* `outcome`: start_time and end_time are the perf_counter readings around
\* the await, memory the larger of the two monitor samples.
measure_operation(operation, outcome, start_time, end_time, memory, dataset_size, users, u, i) ==
    LET error == IF outcome.raised THEN Some(outcome.msg) ELSE None
        latency_ms == Rat((end_time - start_time) * MsPerTick)
        throughput == IF end_time > start_time
                      THEN Norm(TicksPerSecond, end_time - start_time)
                      ELSE Zero
    IN  Return(PerformanceMetric(operation, latency_ms, throughput, memory,
                                 end_time, users, dataset_size,
                                 error, u, i, start_time, outcome.raised,
                                 outcome.msg))

\* ------------------------------------------------------------------------
\* StatisticalAnalyzer
\* ------------------------------------------------------------------------
\* mutant: below two samples the interval collapses onto the only sample
calculate_confidence_interval_on_sample(data) ==
    IF Len(data) = 0 THEN <<Surd(Zero, Zero, Zero), Surd(Zero, Zero, Zero)>>
    ELSE IF Len(data) = 1 THEN <<Surd(data[1], Zero, Zero), Surd(data[1], Zero, Zero)>>
    ELSE LET mean == RDiv(RSum(data), Rat(Len(data)))
             sem2 == RDiv(Variance(data), Rat(Len(data)))
             t == TPpf975(Len(data) - 1)
         IN  <<Surd(mean, RSub(Zero, t), sem2), Surd(mean, t, sem2)>>

\* mutant: an interval is computed only from three samples on
calculate_confidence_interval_from_three(data) ==
    IF Len(data) < 3 THEN <<Surd(Zero, Zero, Zero), Surd(Zero, Zero, Zero)>>
    ELSE LET mean == RDiv(RSum(data), Rat(Len(data)))
             sem2 == RDiv(Variance(data), Rat(Len(data)))
             t == TPpf975(Len(data) - 1)
         IN  <<Surd(mean, RSub(Zero, t), sem2), Surd(mean, t, sem2)>>

\* calculate_confidence_interval: (0, 0) below two samples, else mean -/+ h
\* with h = sem * t.ppf(0.975, n - 1) and sem = sqrt(variance / n)
calculate_confidence_interval(data) ==
    IF Len(data) < 2 THEN <<Surd(Zero, Zero, Zero), Surd(Zero, Zero, Zero)>>
    ELSE LET mean == Mean(data)
             sem2 == RDiv(Variance(data), Rat(Len(data)))
             t == TPpf975(Len(data) - 1)
         IN  <<Surd(mean, RSub(Zero, t), sem2), Surd(mean, t, sem2)>>

\* mutant: the interpolation runs over the data in the order given
percentile_unsorted(data, p) ==
    IF data = <<>> THEN Zero
    ELSE LET n == Len(data)
             pos == p * (n - 1)
             lo == pos \div 100
             frac == Norm(pos % 100, 100)
         IN  IF lo + 1 >= n THEN data[n]
             ELSE RAdd(data[lo + 1], RMul(frac, RSub(data[lo + 2], data[lo + 1])))

\* np.percentile(data, p), linear interpolation; 0.0 for an empty list
percentile(data, p) ==
    IF data = <<>> THEN Zero
    ELSE LET a == Sorted(data)
             n == Len(data)
             pos == p * (n - 1)
             lo == pos \div 100
             frac == Norm(pos % 100, 100)
         IN  IF lo + 1 >= n THEN a[n]
             ELSE RAdd(a[lo + 1], RMul(frac, RSub(a[lo + 2], a[lo + 1])))

HasNoError(m) == m.error = None

\* mutant: a record counts as failed only when its error string is truthy
HasError_truthy(m) == m.error # None /\ m.error # Some("")

HasError(m) == m.error # None

\* [m for m in metrics if m.error is None] and its complement
Successes(metrics) == SelectSeq(metrics, HasNoError)
Failures(metrics) == SelectSeq(metrics, HasError)

\* mutant: the duration spans the earliest and the latest timestamp
test_duration_seconds_sorted(metrics) ==
    LET ts == {metrics[i].timestamp : i \in 1..Len(metrics)}
        first == CHOOSE t \in ts : \A o \in ts : t <= o
        last == CHOOSE t \in ts : \A o \in ts : o <= t
    IN  Norm(last - first, TicksPerSecond)

\* (metrics[-1].timestamp - metrics[0].timestamp).total_seconds()
test_duration_seconds(metrics) ==
    Norm(metrics[Len(metrics)].timestamp - metrics[1].timestamp, TicksPerSecond)

\* the BenchmarkResult that analyze_metrics builds from a non-empty list
\* (its `timestamp`, the wall-clock time of the analysis, is left out)
Summarize(metrics) ==
    LET good == Successes(metrics)
        latencies == [i \in 1..Len(good) |-> good[i].latency_ms]
        throughputs == [i \in 1..Len(good) |-> good[i].throughput_ops_per_sec]
        memory_usage == [i \in 1..Len(good) |-> good[i].memory_usage_mb]
        errors == Failures(metrics)
        latency_ci == calculate_confidence_interval(latencies)
        throughput_ci == calculate_confidence_interval(throughputs)
    IN  [operation |-> metrics[1].operation,
         dataset_size |-> metrics[1].dataset_size,
         concurrent_users |-> metrics[1].concurrent_users,
         sample_count |-> Len(metrics),
         latency_mean |-> IF Len(latencies) > 0 THEN Mean(latencies) ELSE Zero,
         latency_median |-> IF Len(latencies) > 0 THEN Median(latencies) ELSE Zero,
         latency_p95 |-> percentile(latencies, 95),
         latency_p99 |-> percentile(latencies, 99),
         latency_std |-> IF Len(latencies) > 1 THEN Stdev(latencies)
                         ELSE Surd(Zero, Zero, Zero),
         latency_ci_lower |-> latency_ci[1],
         latency_ci_upper |-> latency_ci[2],
         throughput_mean |-> IF Len(throughputs) > 0 THEN Mean(throughputs) ELSE Zero,
         throughput_median |-> IF Len(throughputs) > 0 THEN Median(throughputs)
                               ELSE Zero,
         throughput_std |-> IF Len(throughputs) > 1 THEN Stdev(throughputs)
                            ELSE Surd(Zero, Zero, Zero),
         throughput_ci_lower |-> throughput_ci[1],
         throughput_ci_upper |-> throughput_ci[2],
         memory_usage_mean_mb |-> IF Len(memory_usage) > 0 THEN Mean(memory_usage)
                                  ELSE Zero,
         error_rate |-> Norm(Len(errors), Len(metrics)),
         total_errors |-> Len(errors),
         test_duration_seconds |-> test_duration_seconds(metrics)]

\* a BenchmarkResult of zeros, which analyze_metrics never builds
ZeroResult ==
    [operation |-> "", dataset_size |-> 0, concurrent_users |-> 0,
     sample_count |-> 0, latency_mean |-> Zero, latency_median |-> Zero,
     latency_p95 |-> Zero, latency_p99 |-> Zero,
     latency_std |-> Surd(Zero, Zero, Zero),
     latency_ci_lower |-> Surd(Zero, Zero, Zero),
     latency_ci_upper |-> Surd(Zero, Zero, Zero),
     throughput_mean |-> Zero, throughput_median |-> Zero,
     throughput_std |-> Surd(Zero, Zero, Zero),
     throughput_ci_lower |-> Surd(Zero, Zero, Zero),
     throughput_ci_upper |-> Surd(Zero, Zero, Zero),
     memory_usage_mean_mb |-> Zero, error_rate |-> Zero, total_errors |-> 0,
     test_duration_seconds |-> Zero]

\* mutant: an empty list is summarised as zeros instead of being refused
analyze_metrics_zero_filled(metrics) ==
    IF Len(metrics) = 0 THEN Return(ZeroResult) ELSE Return(Summarize(metrics))

analyze_metrics(metrics) ==
    IF Len(metrics) = 0 THEN Raise("ValueError") ELSE Return(Summarize(metrics))

\* ------------------------------------------------------------------------
\* State
\* ------------------------------------------------------------------------
VARIABLES
    \* a caller of StatisticalAnalyzer.analyze_metrics
    sMetrics,   \* the metric list it holds
    sResult,    \* outcome of its latest analyze_metrics call, <<>> before
    sFirst,     \* outcome of its first analyze_metrics call, <<>> before
    sPc         \* "input", "analysed", "reordered" or "reanalysed"

VARIABLES
    \* one call of MemoryMCPBenchmark.run_load_test
    concurrent_users,   \* argument: number of user tasks
    samples_per_user,   \* argument: measurements per user task
    duration_seconds,   \* argument
    now,                \* the clock, in ticks of 0.1 s
    lPc,                \* the driver: "idle", "collecting", "returned", "raised"
    uPc,                \* per task: "none", "created", "in_action", "sleeping",
                        \*           "done", "failed"
    uStart,             \* per task: start_time of the measurement under way
    uWake,              \* per task: tick at which its asyncio.sleep ends
    user_metrics,       \* per task: its private list
    calls,              \* per task: how often operation_func was awaited
    completed,          \* tasks finished and not yet collected, in order
    collected,          \* tasks whose lists were taken, in order
    metrics,            \* the driver's list
    lReturned           \* the list run_load_test returned

VARIABLES
    \* one run of a hook script (pre_edit.py or pre_agent_spawn.py)
    hHook,          \* which script runs
    hStdin,         \* what it finds on stdin
    hBuildRaises,   \* whether constructing the HookEvent raises
    hSaveRaises,    \* whether saving the HookEvent raises
    hPc,            \* "start" or "exited"
    hStdout,        \* the JSON objects printed to stdout, in order
    hExit,          \* the exit status, -1 while the script runs
    hSaved          \* whether the event was saved

VARIABLES
    \* one call of ComparisonAnalyzer.compare_systems
    cCurrent,   \* argument current_results
    cTarget,    \* argument target_results
    cPc,        \* "start" or "done"
    cOut        \* outcome of the call, <<>> before

VARIABLES
    \* one call of ProductionTargets.evaluate_results
    tResults,   \* argument results
    tPc,        \* "start" or "done"
    tOut        \* the returned evaluation, <<>> before

varsStats == <<sMetrics, sResult, sFirst, sPc>>
varsCompare == <<cCurrent, cTarget, cPc, cOut>>
varsHook == <<hHook, hStdin, hBuildRaises, hSaveRaises, hPc, hStdout, hExit,
              hSaved>>
varsLoad == <<concurrent_users, samples_per_user, duration_seconds, now, lPc,
              uPc, uStart, uWake, user_metrics, calls, completed, collected,
              metrics, lReturned>>
VARIABLES
    \* one CurrentMemoryMCPBenchmark and the calls of its mock operations
    mock_memory_store,  \* the stored records, in insertion order
    mNext,              \* the number of uuid4 values drawn so far
    mOps,               \* the number of mock operations called so far
    mLast,              \* the latest call: op, arg, result, store before it
    mShortIds           \* ids seen in results of non-empty-query searches

VARIABLES
    \* PainPointValidator.validate_all_pain_points on its own benchmark
    pPc,                  \* the await the validator is at
    pLocals,              \* the locals of the test that is running
    pain_points_results,  \* the dictionary being filled
    pRuns                 \* the number of validations started

VARIABLES
    \* ComprehensiveBenchmarkRunner.run_performance_baseline_suite
    suPc,       \* the phase of the suite
    suDone,     \* the number of load tests finished in the phase
    suCurrent,  \* benchmark_results of benchmark_current_system
    suTarget,   \* benchmark_results of benchmark_target_system
    suResults,  \* comparison_analysis and sla_targets_assessment of results
    suRows      \* the operations in the report's Performance Comparison table

VARIABLES
    \* memory_mcp_flow0_direct.main
    fPc,        \* the await main is at, or how it ended
    fPlan,      \* plan.agent_requests: the role of each request
    fGraph,     \* the builder's graph: its operations in the order added
    fResearch,  \* research_nodes: ids (positions in the graph)
    fFlows,     \* the node ids of the graph of each finished session.flow
    fReturn     \* what main returned

varsTargets == <<tResults, tPc, tOut>>
varsFlow == <<fPc, fPlan, fGraph, fResearch, fFlows, fReturn>>
varsSuite == <<suPc, suDone, suCurrent, suTarget, suResults, suRows>>
varsMock == <<mock_memory_store, mNext, mOps, mLast, mShortIds>>
varsPain == <<pPc, pLocals, pain_points_results, pRuns>>
\* the components that were added after the first four
varsRest == <<varsTargets, varsMock, varsPain, varsSuite, varsFlow>>
vars == <<varsStats, varsLoad, varsHook, varsCompare, varsRest>>

\* what a step of one component leaves alone
notStats == <<varsLoad, varsHook, varsCompare, varsRest>>
notLoad == <<varsStats, varsHook, varsCompare, varsRest>>
notHook == <<varsStats, varsLoad, varsCompare, varsRest>>
notCompare == <<varsStats, varsLoad, varsHook, varsRest>>
notTargets == <<varsStats, varsLoad, varsHook, varsCompare, varsMock, varsPain, varsSuite, varsFlow>>
notMock == <<varsStats, varsLoad, varsHook, varsCompare, varsTargets, varsPain, varsSuite, varsFlow>>
notSuite == <<varsStats, varsLoad, varsHook, varsCompare, varsTargets, varsMock, varsPain, varsFlow>>
notFlow == <<varsStats, varsLoad, varsHook, varsCompare, varsTargets, varsMock, varsPain, varsSuite>>
\* the validator works on the store of its benchmark
notPain == <<varsStats, varsLoad, varsHook, varsCompare, varsTargets, varsSuite, varsFlow, mOps, mLast, mShortIds>>

\* ------------------------------------------------------------------------
\* A caller of analyze_metrics: it summarises a list, reorders the list and
\* summarises it again
\* ------------------------------------------------------------------------
ElapsedChoices == {0, 1, 3}
ErrorChoices == {Returned, Raised("")}
TimestampChoices == {0, 1}

\* the records measure_operation can produce for one operation label
MetricChoices ==
    { measure_operation("op", o, t - e, t, Rat(8), 1000, 1, 0, 0).val :
        <<o, e, t>> \in ErrorChoices \X ElapsedChoices \X TimestampChoices }

MetricLists == UNION { [1..n -> MetricChoices] : n \in 0..MaxLen }

IsPermutation(f, n) == \A i \in 1..n : \E j \in 1..n : f[j] = i

StatsIdle ==
    /\ sMetrics = <<>>
    /\ sResult = <<>>
    /\ sFirst = <<>>
    /\ sPc = "off"

StatsInit ==
    /\ sMetrics \in MetricLists
    /\ sResult = <<>>
    /\ sFirst = <<>>
    /\ sPc = "input"

Analyze ==
    /\ sPc \in {"input", "reordered"}
    /\ sResult' = analyze_metrics(sMetrics)
    /\ sFirst' = IF sPc = "input" THEN analyze_metrics(sMetrics) ELSE sFirst
    /\ sPc' = IF sPc = "input" THEN "analysed" ELSE "reanalysed"
    /\ UNCHANGED <<sMetrics, notStats>>

Reorder ==
    /\ sPc = "analysed"
    /\ \E f \in [1..Len(sMetrics) -> 1..Len(sMetrics)] :
          /\ IsPermutation(f, Len(sMetrics))
          /\ sMetrics' = [i \in 1..Len(sMetrics) |-> sMetrics[f[i]]]
    /\ sPc' = "reordered"
    /\ UNCHANGED <<sResult, sFirst, notStats>>

StatsNext == Analyze \/ Reorder

\* ------------------------------------------------------------------------
\* MemoryMCPBenchmark.run_load_test
\* ------------------------------------------------------------------------
MaxUsers == 2
MaxSamples == 2
\* the longest the measured action takes, in ticks
MaxActionTicks == 1

Users == 1..MaxUsers

\* random.uniform(0.1, 0.5), in ticks: the shortest and the longest sleep
SleepMin == 1
SleepMax == 5
SleepChoices == {SleepMin, SleepMax}

\* what the measured action may do
Outcomes == {Returned, Raised(""), Raised("boom")}

DurationChoices == {0, 60}

LoadIdle ==
    /\ concurrent_users = 0 /\ samples_per_user = 0 /\ duration_seconds = 0
    /\ now = 0 /\ lPc = "off"
    /\ uPc = [u \in Users |-> "none"]
    /\ uStart = [u \in Users |-> 0]
    /\ uWake = [u \in Users |-> 0]
    /\ user_metrics = [u \in Users |-> <<>>]
    /\ calls = [u \in Users |-> 0]
    /\ completed = <<>> /\ collected = <<>> /\ metrics = <<>>
    /\ lReturned = <<>>

LoadInit ==
    /\ concurrent_users \in 0..MaxUsers
    /\ samples_per_user \in 0..MaxSamples
    /\ duration_seconds \in DurationChoices
    /\ now = 0 /\ lPc = "idle"
    /\ uPc = [u \in Users |-> "none"]
    /\ uStart = [u \in Users |-> 0]
    /\ uWake = [u \in Users |-> 0]
    /\ user_metrics = [u \in Users |-> <<>>]
    /\ calls = [u \in Users |-> 0]
    /\ completed = <<>> /\ collected = <<>> /\ metrics = <<>>
    /\ lReturned = <<>>

\* mutant: the driver stops collecting once duration_seconds have passed
LoopDone_deadline ==
    \/ Len(collected) = concurrent_users
    \/ now >= duration_seconds * TicksPerSecond

\* `for task in asyncio.as_completed(tasks)` has yielded every task
LoopDone == Len(collected) = concurrent_users

\* mutant: the driver keeps only the list of the task it collected last
extend_overwrites(list, more) == more

\* mutant: the list of a collected task is put in front
extend_in_front(list, more) == more \o list

\* list.extend
extend(list, more) == list \o more

\* the driver logs, creates one task per user and starts collecting; without
\* tasks the collection loop is empty and it returns at once
RunLoadTest ==
    /\ lPc = "idle"
    /\ uPc' = [u \in Users |-> IF u <= concurrent_users THEN "created" ELSE "none"]
    /\ IF LoopDone
       THEN lPc' = "returned" /\ lReturned' = metrics
       ELSE lPc' = "collecting" /\ UNCHANGED lReturned
    /\ UNCHANGED <<concurrent_users, samples_per_user, duration_seconds, now,
                   uStart, uWake, user_metrics, calls, completed, collected,
                   metrics, notLoad>>

\* mutant: the loop stops one iteration early
range_exhausted_early(i, n) == i + 1 >= n

\* `for _ in range(n)` is over after i iterations
range_exhausted(i, n) == i >= n

\* user_simulation runs up to its next await: the loop is over and the task
\* finishes, or measure_operation reads start_time and awaits operation_func
Resume(u) ==
    IF range_exhausted(Len(user_metrics[u]), samples_per_user)
    THEN /\ uPc' = [uPc EXCEPT ![u] = "done"]
         /\ completed' = Append(completed, u)
         /\ UNCHANGED <<uStart, calls>>
    ELSE /\ uPc' = [uPc EXCEPT ![u] = "in_action"]
         /\ uStart' = [uStart EXCEPT ![u] = now]
         /\ calls' = [calls EXCEPT ![u] = @ + 1]
         /\ UNCHANGED completed

\* a created task is run for the first time; the event loop runs the new
\* tasks in the order of their creation
UserStart(u) ==
    /\ lPc = "collecting" /\ uPc[u] = "created"
    /\ \A v \in Users : v < u => uPc[v] # "created"
    /\ Resume(u)
    /\ UNCHANGED <<concurrent_users, samples_per_user, duration_seconds, now,
                   lPc, uWake, user_metrics, collected, metrics, lReturned,
                   notLoad>>

\* the awaited action finishes: measure_operation builds the metric, the task
\* appends it to its own list and goes to sleep; an exception leaving
\* measure_operation would end the task
ActionFinish(u) ==
    /\ uPc[u] = "in_action"
    /\ \E outcome \in Outcomes, d \in SleepChoices :
          LET r == measure_operation("op", outcome, uStart[u], now, Rat(8),
                                     1000, concurrent_users, u,
                                     Len(user_metrics[u]) + 1)
          IN  IF r.ok
              THEN /\ user_metrics' = [user_metrics EXCEPT ![u] = Append(@, r.val)]
                   /\ uPc' = [uPc EXCEPT ![u] = "sleeping"]
                   /\ uWake' = [uWake EXCEPT ![u] = now + d]
                   /\ UNCHANGED completed
              ELSE /\ uPc' = [uPc EXCEPT ![u] = "failed"]
                   /\ completed' = Append(completed, u)
                   /\ UNCHANGED <<user_metrics, uWake>>
    /\ UNCHANGED <<concurrent_users, samples_per_user, duration_seconds, now,
                   lPc, uStart, calls, collected, metrics, lReturned, notLoad>>

\* mutant: the sleep returns at once
SleepOver_at_once(u) == TRUE

\* `await asyncio.sleep(d)` returns once d seconds have passed
SleepOver(u) == uWake[u] <= now

\* the pacing sleep is over
Wake(u) ==
    /\ uPc[u] = "sleeping" /\ SleepOver(u)
    /\ Resume(u)
    /\ UNCHANGED <<concurrent_users, samples_per_user, duration_seconds, now,
                   lPc, uWake, user_metrics, collected, metrics, lReturned,
                   notLoad>>

\* `user_metrics = await task; metrics.extend(user_metrics)` for the task
\* that finished first among those not yet collected; after the last one
\* the driver returns.  Awaiting a task that ended with an exception raises.
Collect ==
    /\ lPc = "collecting" /\ completed # <<>>
    /\ UNCHANGED <<concurrent_users, samples_per_user, duration_seconds, now,
                   uPc, uStart, uWake, user_metrics, calls, notLoad>>
    /\ LET u == Head(completed)
       IN  /\ completed' = Tail(completed)
           /\ collected' = Append(collected, u)
           /\ IF uPc[u] = "failed"
              THEN lPc' = "raised" /\ UNCHANGED <<metrics, lReturned>>
              ELSE /\ metrics' = extend(metrics, user_metrics[u])
                   /\ IF LoopDone'
                      THEN lPc' = "returned" /\ lReturned' = metrics'
                      ELSE lPc' = "collecting" /\ UNCHANGED lReturned

\* time passes while a task is suspended, but not before the new tasks have
\* run, and not beyond the end of a sleep or the longest action
Tick ==
    /\ lPc = "collecting"
    /\ \E u \in Users : uPc[u] \in {"in_action", "sleeping"}
    /\ \A u \in Users :
          /\ uPc[u] # "created"
          /\ uPc[u] = "sleeping" => uWake[u] > now
          /\ uPc[u] = "in_action" => now - uStart[u] < MaxActionTicks
    /\ now' = now + 1
    /\ UNCHANGED <<concurrent_users, samples_per_user, duration_seconds, lPc,
                   uPc, uStart, uWake, user_metrics, calls, completed,
                   collected, metrics, lReturned, notLoad>>

LoadNext ==
    \/ RunLoadTest
    \/ \E u \in Users : UserStart(u)
    \/ \E u \in Users : ActionFinish(u)
    \/ \E u \in Users : Wake(u)
    \/ Collect
    \/ Tick

\* ------------------------------------------------------------------------
\* Hook entry points: hooks/pre_edit.py and hooks/pre_agent_spawn.py
\* ------------------------------------------------------------------------
\* A JSON value as Python sees it: its type, and n, its number for a number
\* or a bool and its len() for a string, a list or a dict
J(kind, n) == [kind |-> kind, n |-> n]
HasLen(j) == j.kind \in {"str", "list", "dict"}
Truthy(j) == j.kind # "null" /\ j.n # 0

\* lengths of task descriptions around the two complexity thresholds
StrLens == {0, 100, 101, 500, 501}
JValues ==
    {J("null", 0), J("bool", 0), J("bool", 1), J("num", 0), J("num", 7)}
    \cup {J("str", n) : n \in StrLens}
    \cup {J("list", n) : n \in {0, 2}} \cup {J("dict", n) : n \in {0, 1}}

HookKeys(hook) ==
    IF hook = "pre_edit" THEN {"file_path", "file_paths"}
    ELSE {"prompt", "description"}

\* tool_input: a dict (items: key -> value), or another JSON value; for a
\* string or a list, `contains` are the keys that `key in tool_input` finds
ToolInputs(hook) ==
    {[kind |-> "dict", contains |-> {}, items |-> d] :
        d \in UNION {[K -> JValues] : K \in SUBSET HookKeys(hook)}}
    \cup {[kind |-> k, contains |-> {}, items |-> <<>>] :
            k \in {"null", "num", "bool", "str", "list"}}
    \cup {[kind |-> k, contains |-> {c}, items |-> <<>>] :
            k \in {"str", "list"}, c \in HookKeys(hook)}

EmptyDict == [kind |-> "dict", contains |-> {}, items |-> <<>>]

\* stdin: text that is no JSON, a JSON value that is no object, or an object
\* with or without session_id and tool_input
Stdins(hook) ==
    {[wellformed |-> FALSE, top |-> "", session_id |-> None, tool_input |-> None]}
    \cup {[wellformed |-> TRUE, top |-> t, session_id |-> None, tool_input |-> None] :
            t \in {"null", "num", "str", "list"}}
    \cup {[wellformed |-> TRUE, top |-> "object", session_id |-> sid,
           tool_input |-> ti] :
            sid \in {None, Some("s1")},
            ti \in {None} \cup {Some(x) : x \in ToolInputs(hook)}}

\* dict.get(key, default)
Get(items, key, default) == IF key \in DOMAIN items THEN items[key] ELSE default

\* `key in tool_input`: raises for a value that is no container
Contains(ti, key) ==
    IF ti.kind \in {"null", "num", "bool"} THEN Raise("TypeError")
    ELSE IF ti.kind = "dict" THEN Return(key \in DOMAIN ti.items)
    ELSE Return(key \in ti.contains)

\* tool_input[key]: a string or a list cannot be indexed by a string
Item(ti, key) ==
    IF ti.kind = "dict" THEN Return(ti.items[key]) ELSE Raise("TypeError")

\* what the except branch of a handler returns
ErrorResult(e) == [proceed |-> TRUE, error |-> e, event_logged |-> FALSE]

\* mutant: a failure inside the handler blocks the caller
handle_pre_edit_blocks(file_paths, build_raises, save_raises) ==
    IF ~HasLen(file_paths)
    THEN [result |-> [proceed |-> FALSE, error |-> "TypeError",
                      event_logged |-> FALSE], saved |-> FALSE]
    ELSE IF build_raises
    THEN [result |-> [proceed |-> FALSE, error |-> "ValidationError",
                      event_logged |-> FALSE], saved |-> FALSE]
    ELSE [result |-> [proceed |-> TRUE, file_count |-> file_paths.n,
                      event_logged |-> TRUE],
          saved |-> ~save_raises]

\* handle_pre_edit: len(file_paths) or the construction of the event may
\* raise, which the outer except turns into an error result; an exception
\* of the save is swallowed
handle_pre_edit(file_paths, build_raises, save_raises) ==
    IF ~HasLen(file_paths)
    THEN [result |-> ErrorResult("TypeError"), saved |-> FALSE]
    ELSE IF build_raises
    THEN [result |-> ErrorResult("ValidationError"), saved |-> FALSE]
    ELSE [result |-> [proceed |-> TRUE, file_count |-> file_paths.n,
                      event_logged |-> TRUE],
          saved |-> ~save_raises]

HighAbove == 500
MediumAbove == 100

\* mutant: a length equal to a threshold already counts for the higher class
estimated_complexity_inclusive(task_length) ==
    IF task_length >= HighAbove THEN "high"
    ELSE IF task_length >= MediumAbove THEN "medium" ELSE "low"

estimated_complexity(task_length) ==
    IF task_length > HighAbove THEN "high"
    ELSE IF task_length > MediumAbove THEN "medium" ELSE "low"

\* handle_pre_agent_spawn: len(), .lower() and .split() of a description
\* that is no string raise, as may the construction of the event
handle_pre_agent_spawn(task_description, build_raises, save_raises) ==
    IF ~HasLen(task_description)
    THEN [result |-> ErrorResult("TypeError"), saved |-> FALSE]
    ELSE IF task_description.kind # "str"
    THEN [result |-> ErrorResult("AttributeError"), saved |-> FALSE]
    ELSE IF build_raises
    THEN [result |-> ErrorResult("ValidationError"), saved |-> FALSE]
    ELSE [result |-> [proceed |-> TRUE, task_length |-> task_description.n,
                      estimated_complexity |->
                          estimated_complexity(task_description.n),
                      event_logged |-> TRUE],
          saved |-> ~save_raises]

\* the file_paths that pre_edit's main takes from tool_input
pre_edit_file_paths(ti) ==
    LET one == Contains(ti, "file_path")
        many == Contains(ti, "file_paths")
    IN  IF ~one.ok THEN one
        ELSE IF one.val
        THEN (IF Item(ti, "file_path").ok THEN Return(J("list", 1))
              ELSE Item(ti, "file_path"))
        ELSE IF many.val THEN Item(ti, "file_paths")
        ELSE Return(J("list", 0))

\* the task description that pre_agent_spawn's main takes from tool_input:
\* tool_input.get("prompt", "") or tool_input.get("description", "")
spawn_task_description(ti) ==
    IF ti.kind # "dict" THEN Raise("AttributeError")
    ELSE LET prompt == Get(ti.items, "prompt", J("str", 0))
         IN  Return(IF Truthy(prompt) THEN prompt
                    ELSE Get(ti.items, "description", J("str", 0)))

\* the except branch of main: print {"proceed": True, "error": ...}, exit 0
MainFallback(e) ==
    [stdout |-> <<[proceed |-> TRUE, error |-> e]>>, exit |-> 0, saved |-> FALSE]

\* sys.exit(0 if result.get("proceed", True) else 1) after printing result
MainExit(handled) ==
    [stdout |-> <<handled.result>>,
     exit |-> IF handled.result.proceed THEN 0 ELSE 1,
     saved |-> handled.saved]

\* main of either script: json.load, hook_input.get, the extraction from
\* tool_input, the handler, print and sys.exit
main(hook, stdin, build_raises, save_raises) ==
    IF ~stdin.wellformed THEN MainFallback("JSONDecodeError")
    ELSE IF stdin.top # "object" THEN MainFallback("AttributeError")
    ELSE LET ti == IF stdin.tool_input = None THEN EmptyDict
                   ELSE stdin.tool_input[1]
             arg == IF hook = "pre_edit" THEN pre_edit_file_paths(ti)
                    ELSE spawn_task_description(ti)
         IN  IF ~arg.ok THEN MainFallback(arg.exc)
             ELSE IF hook = "pre_edit"
             THEN MainExit(handle_pre_edit(arg.val, build_raises, save_raises))
             ELSE MainExit(handle_pre_agent_spawn(arg.val, build_raises,
                                                  save_raises))

HookIdle ==
    /\ hHook = "" /\ hStdin = <<>> /\ hBuildRaises = FALSE
    /\ hSaveRaises = FALSE /\ hPc = "off" /\ hStdout = <<>> /\ hExit = -1
    /\ hSaved = FALSE

HookInit ==
    /\ hHook \in {"pre_edit", "pre_agent_spawn"}
    /\ hStdin \in Stdins(hHook)
    /\ hBuildRaises \in BOOLEAN
    /\ hSaveRaises \in BOOLEAN
    /\ hPc = "start" /\ hStdout = <<>> /\ hExit = -1 /\ hSaved = FALSE

RunHook(hook) ==
    /\ hPc = "start" /\ hHook = hook
    /\ LET out == main(hook, hStdin, hBuildRaises, hSaveRaises)
       IN  /\ hStdout' = out.stdout
           /\ hExit' = out.exit
           /\ hSaved' = out.saved
    /\ hPc' = "exited"
    /\ UNCHANGED <<hHook, hStdin, hBuildRaises, hSaveRaises, notHook>>

PreEditMain == RunHook("pre_edit")
PreAgentSpawnMain == RunHook("pre_agent_spawn")

HookNext == PreEditMain \/ PreAgentSpawnMain

\* ------------------------------------------------------------------------
\* ComparisonAnalyzer.compare_systems
\* ------------------------------------------------------------------------
MaxResults == 2

\* mutant: the first result of a label wins
by_op_first(results) ==
    [op \in {results[i].operation : i \in 1..Len(results)} |->
        LET first == CHOOSE i \in 1..Len(results) :
                        /\ results[i].operation = op
                        /\ \A j \in 1..Len(results) :
                              results[j].operation = op => i <= j
        IN  results[first]]

\* {r.operation: r for r in results}: the last result of a label wins
by_op(results) ==
    [op \in {results[i].operation : i \in 1..Len(results)} |->
        LET last == CHOOSE i \in 1..Len(results) :
                        /\ results[i].operation = op
                        /\ \A j \in 1..Len(results) :
                              results[j].operation = op => j <= i
        IN  results[last]]

\* a Python float division by 0.0 raises ZeroDivisionError
DividesByZero(current) ==
    \/ current.latency_mean = Zero
    \/ current.throughput_mean = Zero
    \/ current.memory_usage_mean_mb = Zero

\* (current.latency_mean - target.latency_mean) / current.latency_mean
latency_improvement(current, target) ==
    RDiv(RSub(current.latency_mean, target.latency_mean), current.latency_mean)

\* (target.throughput_mean - current.throughput_mean) / current.throughput_mean
throughput_improvement(current, target) ==
    RDiv(RSub(target.throughput_mean, current.throughput_mean),
         current.throughput_mean)

\* (current.memory_usage_mean_mb - target.memory_usage_mean_mb)
\*     / current.memory_usage_mean_mb
memory_improvement(current, target) ==
    RDiv(RSub(current.memory_usage_mean_mb, target.memory_usage_mean_mb),
         current.memory_usage_mean_mb)

\* mutant: the latency target counts as met within one percent of the tenth
meets_target_10x_search_latency_roughly(current, target) ==
    RLe(RMul(target.latency_p95, Rat(99)),
        RMul(RDiv(current.latency_p95, Rat(10)), Rat(100)))

\* target.latency_p95 <= current.latency_p95 / 10
meets_target_10x_search_latency(current, target) ==
    RLe(target.latency_p95, RDiv(current.latency_p95, Rat(10)))

\* target.throughput_mean >= current.throughput_mean * 5
meets_target_5x_storage_throughput(current, target) ==
    RLe(RMul(current.throughput_mean, Rat(5)), target.throughput_mean)

\* memory_improvement >= 0.5
meets_target_50_percent_memory_reduction(current, target) ==
    RLe(Norm(1, 2), memory_improvement(current, target))

\* the detailed_comparison entry of one operation
ComparisonEntry(current, target) ==
    [latency_improvement_percent |->
         RMul(latency_improvement(current, target), Rat(100)),
     throughput_improvement_percent |->
         RMul(throughput_improvement(current, target), Rat(100)),
     memory_improvement_percent |->
         RMul(memory_improvement(current, target), Rat(100)),
     current_p95_latency |-> current.latency_p95,
     target_p95_latency |-> target.latency_p95,
     meets_target_10x_search_latency |->
         meets_target_10x_search_latency(current, target),
     meets_target_5x_storage_throughput |->
         meets_target_5x_storage_throughput(current, target),
     meets_target_50_percent_memory_reduction |->
         meets_target_50_percent_memory_reduction(current, target)]

compare_systems(current_results, target_results) ==
    LET current_by_op == by_op(current_results)
        target_by_op == by_op(target_results)
        both == DOMAIN current_by_op \cap DOMAIN target_by_op
    IN  IF \E op \in both : DividesByZero(current_by_op[op])
        THEN Raise("ZeroDivisionError")
        ELSE Return([summary |-> <<>>,
                     detailed_comparison |->
                         [op \in both |->
                             ComparisonEntry(current_by_op[op], target_by_op[op])],
                     migration_targets_assessment |-> <<>>])

\* summaries of one-record runs: the action returned after one tick or it
\* raised, and the monitor read 0 MB or 8 MB
ResultChoices ==
    { Summarize(<<measure_operation(op, o, 0, 1, mem, 1000, 1, 0, 0).val>>) :
        <<op, o, mem>> \in {"store", "search"} \X {Returned, Raised("")}
                           \X {Zero, Rat(8)} }

\* the summary of a run of one successful record with the given latency
\* (ms), throughput (ops/s) and memory reading (MB, relative to the
\* monitor's baseline, so it can be negative)
SummaryOf(op, latency, throughput, memory) ==
    Summarize(<<PerformanceMetric(op, latency, throughput, memory, 1, 1, 1000,
                                  None, 0, 0, 0, FALSE, "")>>)

\* summaries of "search" runs around the thresholds of the comparison:
\* p95 latencies 245.8, 24.6, 24.58 (a tenth) and 27.31.. (a ninth) ms and
\* 100, 10 and 11.1.. ms; throughputs 12.5, 62.5, 60, 10 and 50 ops/s;
\* memory readings 8, 4, 5, -8 and -16 MB
ThresholdChoices ==
    { SummaryOf("search", Norm(2458, 10), Norm(125, 10), Rat(8)),
      SummaryOf("search", Norm(246, 10), Norm(625, 10), Rat(4)),
      SummaryOf("search", Norm(2458, 100), Norm(625, 10), Rat(4)),
      SummaryOf("search", Norm(2458, 90), Rat(60), Rat(5)),
      SummaryOf("search", Norm(2458, 10), Norm(125, 10), Rat(-8)),
      SummaryOf("search", Norm(246, 10), Norm(625, 10), Rat(-16)),
      SummaryOf("search", Rat(10), Rat(50), Rat(4)),
      SummaryOf("search", Norm(100, 9), Rat(50), Rat(5)) }

\* the summary of a run of two successful records of 100 ms and 300 ms,
\* whose p95 latency (290 ms) differs from its mean latency (200 ms)
SpreadChoices ==
    { Summarize(<<measure_operation("search", Returned, 0, 1, Rat(8), 1000, 1, 0, 0).val,
                  measure_operation("search", Returned, 1, 4, Rat(8), 1000, 1, 0, 1).val>>) }

ResultLists ==
    UNION { [1..n -> ResultChoices \cup ThresholdChoices \cup SpreadChoices] :
              n \in 0..MaxResults }

CompareIdle ==
    cCurrent = <<>> /\ cTarget = <<>> /\ cPc = "off" /\ cOut = <<>>

CompareInit ==
    /\ cCurrent \in ResultLists
    /\ cTarget \in ResultLists
    /\ cPc = "start"
    /\ cOut = <<>>

CompareSystems ==
    /\ cPc = "start"
    /\ cOut' = compare_systems(cCurrent, cTarget)
    /\ cPc' = "done"
    /\ UNCHANGED <<cCurrent, cTarget, notCompare>>

CompareNext == CompareSystems

\* ------------------------------------------------------------------------
\* ProductionTargets.evaluate_results
\* ------------------------------------------------------------------------
\* mutant: the limits of memory_store and memory_search are exchanged
P95LatencyMaxMs_exchanged ==
    [memory_store |-> 50, memory_search |-> 100, memory_update |-> 200,
     memory_retrieve |-> 30]

\* TARGETS["p95_latency_max_ms"]
P95LatencyMaxMs ==
    [memory_store |-> 100, memory_search |-> 50, memory_update |-> 200,
     memory_retrieve |-> 30]

\* TARGETS["error_rate_max"] = 0.01 and TARGETS["concurrent_users_support"]
ErrorRateMax == Norm(1, 100)
ConcurrentUsersSupport == 100

\* evaluation[key] = value
SetItem(d, key, value) ==
    [k \in DOMAIN d \cup {key} |-> IF k = key THEN value ELSE d[k]]

\* the body of the loop of evaluate_results for one result
EvaluateOne(evaluation, result) ==
    LET operation == result.operation
        with_p95 ==
            IF operation \in DOMAIN P95LatencyMaxMs
            THEN SetItem(evaluation, operation \o "_p95_latency_met",
                         RLe(result.latency_p95, Rat(P95LatencyMaxMs[operation])))
            ELSE evaluation
        with_rate ==
            SetItem(with_p95, operation \o "_error_rate_met",
                    RLe(result.error_rate, ErrorRateMax))
    IN  SetItem(with_rate, operation \o "_concurrent_users_met",
                result.concurrent_users >= ConcurrentUsersSupport)

RECURSIVE EvaluateFrom(_, _)
EvaluateFrom(evaluation, results) ==
    IF results = <<>> THEN evaluation
    ELSE EvaluateFrom(EvaluateOne(evaluation, Head(results)), Tail(results))

evaluate_results(results) == EvaluateFrom(<<>>, results)

\* the summary of a run at `users` concurrent users of `samples` records, of
\* which `errors` failed and the others took `latency` ms each
RunSummary(op, latency, users, samples, errors) ==
    [SummaryOf(op, latency, Rat(10), Rat(8)) EXCEPT
        !.concurrent_users = users, !.sample_count = samples,
        !.total_errors = errors, !.error_rate = Norm(errors, samples)]

\* p95 latencies at and just above the four limits; error rates 0, 0.01 and
\* 0.02; concurrency levels just below and at the supported level
TargetLabels ==
    {"memory_store", "memory_search", "memory_update", "memory_retrieve",
     "target_search"}
TargetResultChoices ==
    { RunSummary(op, Rat(latency), users, 100, errors) :
        op \in TargetLabels, latency \in {30, 31, 50, 51, 100, 101, 200, 201},
        users \in {99, 100}, errors \in {0, 1, 2} }

TargetResultLists ==
    UNION { [1..n -> TargetResultChoices] : n \in 0..MaxResults }

TargetsIdle == tResults = <<>> /\ tPc = "off" /\ tOut = <<>>

TargetsInit ==
    /\ tResults \in TargetResultLists
    /\ tPc = "start"
    /\ tOut = <<>>

EvaluateResults ==
    /\ tPc = "start"
    /\ tOut' = evaluate_results(tResults)
    /\ tPc' = "done"
    /\ UNCHANGED <<tResults, notTargets>>

TargetsNext == EvaluateResults

\* ------------------------------------------------------------------------
\* CurrentMemoryMCPBenchmark: the mock operations
\* ------------------------------------------------------------------------
MaxStore == 2
MaxOps == 4

\* str(uuid.uuid4()): the k-th uuid drawn, a string of 36 characters; a
\* prefix of it is the same uuid with a smaller length
Uuid(k) == [uuid |-> k, len |-> 36]

\* mutant: the search returns the id as stored
Prefix8_whole(id) == id

\* id[:8]
Prefix8(id) == [uuid |-> id.uuid, len |-> IF id.len < 8 THEN id.len ELSE 8]

\* `query.lower() in content.lower()` for the queries and contents in use
Found(query) ==
    CASE query = "Test memory" -> {"Test memory for ID management"}
      [] query = "Test content" -> {"Test content"}
      [] query = "test" -> {"Test memory for ID management", "Test content"}
      [] OTHER -> {}

\* mock_memory_store_operation after its sleep: a record under a new uuid
mock_memory_store_operation(store, memory_data, k) ==
    [store |-> Append(store, [id |-> Uuid(k), content |-> memory_data.content,
                              type |-> memory_data.type]),
     result |-> Uuid(k)]

\* random.sample(values, min(3, len(values))): distinct records in any order
Samples(store) ==
    LET k == IF Len(store) < 3 THEN Len(store) ELSE 3
    IN  { [i \in 1..k |-> store[f[i]]] :
            f \in { g \in [1..k -> 1..Len(store)] :
                      \A i, j \in 1..k : g[i] = g[j] => i = j } }

\* mock_memory_search_operation after its sleep, for a non-empty query: the
\* matching records with their ids cut to 8 characters (the random
\* similarity_score is left out)
mock_memory_search_operation(store, query) ==
    LET hits == SelectSeq(store, LAMBDA m : m.content \in Found(query))
    IN  [i \in 1..Len(hits) |-> [hits[i] EXCEPT !.id = Prefix8(hits[i].id)]]

\* mutant: an id that is a prefix of a stored id is resolved to it
mock_memory_update_operation_resolving(store, memory_id, updates) ==
    IF \E i \in 1..Len(store) : store[i].id.uuid = memory_id.uuid
    THEN LET i == CHOOSE i \in 1..Len(store) : store[i].id.uuid = memory_id.uuid
         IN  [store |-> [store EXCEPT ![i].content = updates.content],
              result |-> TRUE]
    ELSE [store |-> store, result |-> FALSE]

\* mock_memory_update_operation after its sleep
mock_memory_update_operation(store, memory_id, updates) ==
    IF memory_id.len < 16 THEN [store |-> store, result |-> FALSE]
    ELSE IF \E i \in 1..Len(store) : store[i].id = memory_id
    THEN LET i == CHOOSE i \in 1..Len(store) : store[i].id = memory_id
         IN  [store |-> [store EXCEPT ![i].content = updates.content],
              result |-> TRUE]
    ELSE [store |-> store, result |-> FALSE]

\* mock_memory_search_by_type_operation after its sleep; wrong is the 30%
\* branch that returns every record
mock_memory_search_by_type_operation(store, memory_type, wrong) ==
    IF wrong THEN store ELSE SelectSeq(store, LAMBDA m : m.type = memory_type)

MemoryData ==
    [content : {"Test memory for ID management", "Python programming"},
     type : {"note", "fact"}]
Queries == {"", "Test memory", "specific"}

\* ids a caller can pass to an update: a stored id, an id seen in a search
\* result, a uuid that was never stored and a prefix of one
UpdateIds ==
    {mock_memory_store[i].id : i \in 1..Len(mock_memory_store)}
    \cup mShortIds \cup {Uuid(0), Prefix8(Uuid(0))}

NoCall == [op |-> "", arg |-> <<>>, result |-> <<>>, before |-> <<>>]

MockIdle ==
    /\ mock_memory_store = <<>> /\ mNext = 0 /\ mOps = -1
    /\ mLast = NoCall /\ mShortIds = {}

MockInit ==
    /\ mock_memory_store = <<>> /\ mNext = 0 /\ mOps = 0
    /\ mLast = NoCall /\ mShortIds = {}

Called(op, arg, result) ==
    /\ mOps' = mOps + 1
    /\ mLast' = [op |-> op, arg |-> arg, result |-> result,
                 before |-> mock_memory_store]

StoreOperation ==
    /\ mOps \in 0..(MaxOps - 1) /\ Len(mock_memory_store) < MaxStore
    /\ \E memory_data \in MemoryData :
          LET r == mock_memory_store_operation(mock_memory_store, memory_data,
                                               mNext + 1)
          IN  /\ mock_memory_store' = r.store
              /\ Called("store", memory_data, r.result)
    /\ mNext' = mNext + 1
    /\ UNCHANGED <<mShortIds, notMock>>

SearchOperation ==
    /\ mOps \in 0..(MaxOps - 1)
    /\ \E query \in Queries :
          IF query = ""
          THEN \E sample \in Samples(mock_memory_store) :
                  /\ Called("search", query, sample)
                  /\ UNCHANGED mShortIds
          ELSE LET r == mock_memory_search_operation(mock_memory_store, query)
               IN  /\ Called("search", query, r)
                   /\ mShortIds' = mShortIds \cup {r[i].id : i \in 1..Len(r)}
    /\ UNCHANGED <<mock_memory_store, mNext, notMock>>

UpdateOperation ==
    /\ mOps \in 0..(MaxOps - 1)
    /\ \E memory_id \in UpdateIds :
          LET r == mock_memory_update_operation(mock_memory_store, memory_id,
                                                [content |-> "Updated content"])
          IN  /\ mock_memory_store' = r.store
              /\ Called("update", memory_id, r.result)
    /\ UNCHANGED <<mNext, mShortIds, notMock>>

SearchByTypeOperation ==
    /\ mOps \in 0..(MaxOps - 1)
    /\ \E memory_type \in {"note", "fact"}, wrong \in BOOLEAN :
          Called("search_by_type", memory_type,
                 mock_memory_search_by_type_operation(mock_memory_store,
                                                      memory_type, wrong))
    /\ UNCHANGED <<mock_memory_store, mNext, mShortIds, notMock>>

MockNext ==
    StoreOperation \/ SearchOperation \/ UpdateOperation \/ SearchByTypeOperation

\* ------------------------------------------------------------------------
\* PainPointValidator.validate_all_pain_points
\* ------------------------------------------------------------------------
MaxValidations == 2

NoLocals == [memory_id |-> <<>>, short_id |-> <<>>, stored |-> 0, empty_query_results |-> <<>>]

PainIdle ==
    /\ pPc = "off" /\ pLocals = NoLocals /\ pain_points_results = <<>>
    /\ pRuns = 0

\* a new PainPointValidator, with an empty CurrentMemoryMCPBenchmark, whose
\* validate_all_pain_points has been called
PainInit ==
    /\ mock_memory_store = <<>> /\ mNext = 0 /\ mOps = -1
    /\ mLast = NoCall /\ mShortIds = {}
    /\ pPc = "id_store" /\ pLocals = NoLocals /\ pain_points_results = <<>>
    /\ pRuns = 1

\* type(response).__name__ of what each mock operation returns
ResponseFormat(op) ==
    CASE op = "store" -> "str" [] op = "search" -> "list" [] op = "update" -> "bool"

\* the entries validate_all_pain_points writes without a test
FixedEntry(name) == [pain_point |-> name, reproduced |-> TRUE]

\* pain_points_results[4] .. [10], given entry 1
RestOfResults(first) ==
    (4 :> FixedEntry("No Duplicate Detection"))
    @@ (5 :> FixedEntry("Namespace Confusion"))
    @@ (6 :> [pain_point |-> "Update Broken", reproduced |-> first.reproduced])
    @@ (7 :> FixedEntry("Type Rigidity"))
    @@ (8 :> FixedEntry("Metadata Limits"))
    @@ (9 :> FixedEntry("Performance Issues"))
    @@ (10 :> FixedEntry("Poor Developer Experience"))

\* the three memories test_search_issues_pain_point stores
SearchIssueData ==
    << [content |-> "Python programming", type |-> "note"],
       [content |-> "JavaScript development", type |-> "note"],
       [content |-> "Database design", type |-> "fact"] >>

\* one store call of the validator's benchmark, then pc and locals
PainStore(memory_data, pc, locals) ==
    LET r == mock_memory_store_operation(mock_memory_store, memory_data, mNext + 1)
    IN  /\ mock_memory_store' = r.store
        /\ mNext' = mNext + 1
        /\ pPc' = pc
        /\ pLocals' = [locals EXCEPT !.memory_id = r.result]

\* test_id_management_pain_point: the store
IdStore ==
    /\ pPc = "id_store"
    /\ PainStore([content |-> "Test memory for ID management", type |-> "note"],
                 "id_search", NoLocals)
    /\ UNCHANGED <<pain_points_results, pRuns, notPain>>

\* test_id_management_pain_point: the search and search_results[0]["id"][:8],
\* an IndexError when nothing was found
IdSearch ==
    /\ pPc = "id_search"
    /\ LET r == mock_memory_search_operation(mock_memory_store, "Test memory")
       IN  IF Len(r) = 0
           THEN pPc' = "raised" /\ UNCHANGED pLocals
           ELSE /\ pPc' = "id_update"
                /\ pLocals' = [pLocals EXCEPT !.short_id = Prefix8(r[1].id)]
    /\ UNCHANGED <<mock_memory_store, mNext, pain_points_results, pRuns, notPain>>

\* test_id_management_pain_point: the update with the short id, and entry 1
IdUpdate ==
    /\ pPc = "id_update"
    /\ LET r == mock_memory_update_operation(mock_memory_store, pLocals.short_id,
                                             [content |-> "Updated content"])
       IN  /\ mock_memory_store' = r.store
           /\ pain_points_results' =
                 (1 :> [pain_point |-> "ID Management",
                        reproduced |-> ~r.result,
                        full_id |-> pLocals.memory_id,
                        short_id |-> pLocals.short_id,
                        update_failed |-> ~r.result])
    /\ pPc' = "api_store"
    /\ UNCHANGED <<mNext, pLocals, pRuns, notPain>>

\* test_api_inconsistency_pain_point: the store
ApiStore ==
    /\ pPc = "api_store"
    /\ PainStore([content |-> "Test content", type |-> "note"], "api_search", NoLocals)
    /\ UNCHANGED <<pain_points_results, pRuns, notPain>>

\* test_api_inconsistency_pain_point: the search, whose result is only typed
ApiSearch ==
    /\ pPc = "api_search"
    /\ pPc' = "api_update"
    /\ UNCHANGED <<mock_memory_store, mNext, pLocals, pain_points_results, pRuns, notPain>>

\* test_api_inconsistency_pain_point: the update with the full id, and entry 2
ApiUpdate ==
    /\ pPc = "api_update"
    /\ LET r == mock_memory_update_operation(mock_memory_store, pLocals.memory_id,
                                             [content |-> "Updated content"])
           formats == [store_format |-> ResponseFormat("store"),
                       search_format |-> ResponseFormat("search"),
                       update_format |-> ResponseFormat("update")]
       IN  /\ mock_memory_store' = r.store
           /\ pain_points_results' = pain_points_results @@
                 (2 :> [pain_point |-> "API Inconsistency",
                        reproduced |->
                            Cardinality({formats[k] : k \in DOMAIN formats}) > 1,
                        response_formats |-> formats])
    /\ pPc' = "search_store"
    /\ UNCHANGED <<mNext, pLocals, pRuns, notPain>>

\* test_search_issues_pain_point: its three stores, one per step
SearchStore ==
    /\ pPc = "search_store"
    /\ LET n == IF pLocals.stored >= Len(SearchIssueData) THEN 1
                ELSE pLocals.stored + 1
       IN  PainStore(SearchIssueData[n],
                     IF n = Len(SearchIssueData) THEN "search_empty"
                     ELSE "search_store",
                     [NoLocals EXCEPT !.stored = n])
    /\ UNCHANGED <<pain_points_results, pRuns, notPain>>

\* test_search_issues_pain_point: the search with the empty query
SearchEmpty ==
    /\ pPc = "search_empty"
    /\ \E sample \in Samples(mock_memory_store) :
          pLocals' = [pLocals EXCEPT !.empty_query_results = sample]
    /\ pPc' = "search_by_type"
    /\ UNCHANGED <<mock_memory_store, mNext, pain_points_results, pRuns, notPain>>

\* test_search_issues_pain_point: the search by type and entry 3; then the
\* entries 4 to 10, which validate_all_pain_points writes without an await
SearchByType ==
    /\ pPc = "search_by_type"
    /\ \E wrong \in BOOLEAN :
          LET filtered ==
                  mock_memory_search_by_type_operation(mock_memory_store, "note", wrong)
              empty_query_random == Len(pLocals.empty_query_results) > 0
              topic_filter_broken == Len(filtered) # 2
          IN  pain_points_results' = pain_points_results @@
                 (3 :> [pain_point |-> "Search Issues",
                        reproduced |-> empty_query_random \/ topic_filter_broken,
                        empty_query_returns_results |-> empty_query_random,
                        topic_filtering_broken |-> topic_filter_broken,
                        empty_query_count |-> Len(pLocals.empty_query_results),
                        expected_filtered_count |-> 2,
                        actual_filtered_count |-> Len(filtered)])
                 @@ RestOfResults(pain_points_results[1])
    /\ pPc' = "done"
    /\ UNCHANGED <<mock_memory_store, mNext, pLocals, pRuns, notPain>>

\* validate_all_pain_points called again on the same validator
ValidateAgain ==
    /\ pPc = "done" /\ pRuns < MaxValidations
    /\ pPc' = "id_store" /\ pRuns' = pRuns + 1
    /\ pLocals' = NoLocals /\ pain_points_results' = <<>>
    /\ UNCHANGED <<mock_memory_store, mNext, notPain>>

PainNext ==
    \/ IdStore \/ IdSearch \/ IdUpdate
    \/ ApiStore \/ ApiSearch \/ ApiUpdate
    \/ SearchStore \/ SearchEmpty \/ SearchByType
    \/ ValidateAgain

\* ------------------------------------------------------------------------
\* ComprehensiveBenchmarkRunner.run_performance_baseline_suite, phases 2 to 5
\* and the report (phase 1 is validate_all_pain_points, above)
\* ------------------------------------------------------------------------
\* operations of benchmark_current_system and benchmark_target_system
Operations == <<"store", "search", "update", "retrieve">>

\* the concurrency levels looped over, cut to the first and the last; one
\* dataset size
CurrentUsers == <<1, 25>>
TargetUsers == <<1, 100>>

\* the load tests of `for users ... for operation ...`, in order
LoadTests(users) ==
    [i \in 1..(Len(users) * Len(Operations)) |->
        [users |-> users[((i - 1) \div Len(Operations)) + 1],
         operation |-> Operations[((i - 1) % Len(Operations)) + 1]]]

\* StatisticalAnalyzer.analyze_metrics on the records of one load test of
\* 5 samples per user, run under the given label; the mean latency is one
\* of two values
SuiteSummaries(label, users) ==
    { RunSummary(label, Rat(latency), users, 5 * users, 0) : latency \in {40, 400} }

NoSuiteResults == [comparison_analysis |-> <<>>, sla_targets_assessment |-> <<>>]

SuiteIdle ==
    /\ suPc = "off" /\ suDone = 0 /\ suCurrent = <<>> /\ suTarget = <<>>
    /\ suResults = NoSuiteResults /\ suRows = {}

SuiteInit ==
    /\ suPc = "current" /\ suDone = 0 /\ suCurrent = <<>> /\ suTarget = <<>>
    /\ suResults = NoSuiteResults /\ suRows = {}

\* benchmark_current_system: one load test under the label
\* f"current_{operation}" and its summary
BenchmarkCurrentSystem ==
    /\ suPc = "current"
    /\ LET test == LoadTests(CurrentUsers)[suDone + 1]
       IN  \E result \in SuiteSummaries("current_" \o test.operation, test.users) :
              suCurrent' = Append(suCurrent, result)
    /\ IF suDone + 1 = Len(LoadTests(CurrentUsers))
       THEN suPc' = "target" /\ suDone' = 0
       ELSE suPc' = suPc /\ suDone' = suDone + 1
    /\ UNCHANGED <<suTarget, suResults, suRows, notSuite>>

\* benchmark_target_system: one load test under the label
\* f"target_{operation}" and its summary
BenchmarkTargetSystem ==
    /\ suPc = "target"
    /\ LET test == LoadTests(TargetUsers)[suDone + 1]
       IN  \E result \in SuiteSummaries("target_" \o test.operation, test.users) :
              suTarget' = Append(suTarget, result)
    /\ IF suDone + 1 = Len(LoadTests(TargetUsers))
       THEN suPc' = "analyse" /\ suDone' = 0
       ELSE suPc' = suPc /\ suDone' = suDone + 1
    /\ UNCHANGED <<suCurrent, suResults, suRows, notSuite>>

\* phases 4 and 5, and the rows _generate_comprehensive_report writes from
\* detailed_comparison
AnalyseAndReport ==
    /\ suPc = "analyse"
    /\ LET comparison == compare_systems(suCurrent, suTarget)
       IN  IF comparison.ok
           THEN /\ suResults' =
                      [comparison_analysis |-> comparison.val,
                       sla_targets_assessment |-> evaluate_results(suTarget)]
                /\ suRows' = DOMAIN comparison.val.detailed_comparison
                /\ suPc' = "done"
           ELSE /\ suPc' = "raised"
                /\ UNCHANGED <<suResults, suRows>>
    /\ UNCHANGED <<suDone, suCurrent, suTarget, notSuite>>

SuiteNext == BenchmarkCurrentSystem \/ BenchmarkTargetSystem \/ AnalyseAndReport

\* ------------------------------------------------------------------------
\* memory_mcp_flow0_direct.main
\* ------------------------------------------------------------------------
MaxRequests == 8
ResearchLimit == 5

Roles == {"researcher", "analyst"}

\* the plans the orchestrator can return: up to MaxRequests agent requests
Plans == UNION { [1..n -> Roles] : n \in 0..MaxRequests }

\* mutant: one more request is let through
Skipped_late(idx) == idx > ResearchLimit + 1

\* `if idx > 5: break`, idx counting from 0
Skipped(idx) == idx > ResearchLimit

\* builder.add_operation("operate", ...): the planning root
RootOperation ==
    [operation |-> "operate", depends_on |-> {}, branch |-> "orchestrator"]

\* builder.add_operation("communicate", depends_on=[root], branch=...)
ResearchOperation(root, role) ==
    [operation |-> "communicate", depends_on |-> {root}, branch |-> role]

\* builder.add_aggregation("communicate", source_node_ids=research_nodes,
\* branch=orchestrator, ...)
SynthesisOperation(research_nodes) ==
    [operation |-> "aggregate",
     depends_on |-> {research_nodes[i] : i \in 1..Len(research_nodes)},
     branch |-> "orchestrator"]

\* the id of the planning root: the first operation of the graph
Root == 1

FlowIdle ==
    /\ fPc = "off" /\ fPlan = <<>> /\ fGraph = <<>> /\ fResearch = <<>>
    /\ fFlows = <<>> /\ fReturn = None

\* main has been called
FlowInit ==
    /\ fPc = "planning" /\ fPlan = <<>> /\ fGraph = <<>> /\ fResearch = <<>>
    /\ fFlows = <<>> /\ fReturn = None

\* `except Exception`: the error is printed and main returns None
Caught ==
    /\ fPc' = "caught"
    /\ fReturn' = None

\* phase 1: the session and the builder are made, the root is added and the
\* graph is run; any of these calls can raise, and so can reading the plan
\* from the result
Planning ==
    /\ fPc = "planning"
    /\ \/ /\ fGraph' = <<RootOperation>>
          /\ fFlows' = Append(fFlows, {Root})
          /\ \E plan \in Plans : fPlan' = plan
          /\ fPc' = "research"
          /\ UNCHANGED fReturn
       \/ /\ Caught
          /\ UNCHANGED <<fPlan, fGraph, fFlows>>
       \/ /\ fGraph' = <<RootOperation>>
          /\ Caught
          /\ UNCHANGED <<fPlan, fFlows>>
    /\ UNCHANGED <<fResearch, notFlow>>

\* phase 2, one turn of the loop: idx is the number of research nodes so
\* far; create_cc_branch is awaited and can raise
AddResearchNode ==
    /\ fPc = "research"
    /\ Len(fResearch) < Len(fPlan) /\ ~Skipped(Len(fResearch))
    /\ \/ /\ fGraph' = Append(fGraph,
                              ResearchOperation(Root, fPlan[Len(fResearch) + 1]))
          /\ fResearch' = Append(fResearch, Len(fGraph) + 1)
          /\ UNCHANGED <<fPc, fReturn>>
       \/ /\ Caught
          /\ UNCHANGED <<fGraph, fResearch>>
    /\ UNCHANGED <<fPlan, fFlows, notFlow>>

\* phase 2, after the loop: the graph with the research nodes is run; then,
\* without another await, the summaries are read and the synthesis is added
\* (add_aggregation can raise)
RunResearch ==
    /\ fPc = "research"
    /\ Len(fResearch) = Len(fPlan) \/ Skipped(Len(fResearch))
    /\ \/ /\ fFlows' = Append(fFlows, DOMAIN fGraph)
          /\ fGraph' = Append(fGraph, SynthesisOperation(fResearch))
          /\ fPc' = "synthesis"
          /\ UNCHANGED fReturn
       \/ /\ fFlows' = Append(fFlows, DOMAIN fGraph)
          /\ Caught
          /\ UNCHANGED fGraph
       \/ /\ Caught
          /\ UNCHANGED <<fGraph, fFlows>>
    /\ UNCHANGED <<fPlan, fResearch, notFlow>>

\* phase 3: the graph with the synthesis is run and its result returned
RunSynthesis ==
    /\ fPc = "synthesis"
    /\ \/ /\ fFlows' = Append(fFlows, DOMAIN fGraph)
          /\ fPc' = "returned"
          /\ fReturn' = Some("result_synthesis")
       \/ /\ Caught
          /\ UNCHANGED fFlows
    /\ UNCHANGED <<fPlan, fGraph, fResearch, notFlow>>

FlowNext == Planning \/ AddResearchNode \/ RunResearch \/ RunSynthesis

\* every component added after the first four is idle
RestIdle == TargetsIdle /\ MockIdle /\ PainIdle /\ SuiteIdle /\ FlowIdle

\* ------------------------------------------------------------------------
\* Specifications
\* ------------------------------------------------------------------------
InitStats == StatsInit /\ LoadIdle /\ HookIdle /\ CompareIdle /\ RestIdle
SpecStats == InitStats /\ [][StatsNext]_vars

InitLoad == LoadInit /\ StatsIdle /\ HookIdle /\ CompareIdle /\ RestIdle
SpecLoad == InitLoad /\ [][LoadNext]_vars

InitHook == HookInit /\ StatsIdle /\ LoadIdle /\ CompareIdle /\ RestIdle
SpecHook == InitHook /\ [][HookNext]_vars

InitCompare == CompareInit /\ StatsIdle /\ LoadIdle /\ HookIdle /\ RestIdle
SpecCompare == InitCompare /\ [][CompareNext]_vars

InitTargets ==
    TargetsInit /\ StatsIdle /\ LoadIdle /\ HookIdle /\ CompareIdle /\ MockIdle /\ PainIdle
    /\ SuiteIdle /\ FlowIdle
SpecTargets == InitTargets /\ [][TargetsNext]_vars

InitMock ==
    MockInit /\ StatsIdle /\ LoadIdle /\ HookIdle /\ CompareIdle /\ TargetsIdle /\ PainIdle
    /\ SuiteIdle /\ FlowIdle
SpecMock == InitMock /\ [][MockNext]_vars

InitPain ==
    PainInit /\ StatsIdle /\ LoadIdle /\ HookIdle /\ CompareIdle /\ TargetsIdle
    /\ SuiteIdle /\ FlowIdle
SpecPain == InitPain /\ [][PainNext]_vars

InitSuite ==
    SuiteInit /\ StatsIdle /\ LoadIdle /\ HookIdle /\ CompareIdle /\ TargetsIdle
    /\ MockIdle /\ PainIdle /\ FlowIdle
SpecSuite == InitSuite /\ [][SuiteNext]_vars

InitFlow ==
    FlowInit /\ StatsIdle /\ LoadIdle /\ HookIdle /\ CompareIdle /\ TargetsIdle
    /\ MockIdle /\ PainIdle /\ SuiteIdle
SpecFlow == InitFlow /\ [][FlowNext]_vars

\* ------------------------------------------------------------------------
\* Claims about StatisticalAnalyzer.analyze_metrics (SpecStats)
\* ------------------------------------------------------------------------
Analysed == sPc \in {"analysed", "reanalysed"}

\* C1: analyze_metrics called with an empty metric list raises (ValueError)
\* and returns no BenchmarkResult, zero-filled or otherwise.
C1_EmptyListRaises ==
    (Analysed /\ Len(sMetrics) = 0) =>
        (~sResult.ok /\ sResult.exc = "ValueError" /\ sResult.val = <<>>)

C1_Witness == sPc = "analysed" /\ Len(sMetrics) = 0 /\ ~sResult.ok

\* the records whose measured action did not raise / did raise
NotRaised(m) == ~m.raised
DidRaise(m) == m.raised
LatencyThroughputFields ==
    {"latency_mean", "latency_median", "latency_p95", "latency_p99",
     "latency_std", "latency_ci_lower", "latency_ci_upper",
     "throughput_mean", "throughput_median", "throughput_std",
     "throughput_ci_lower", "throughput_ci_upper"}
ZeroOf(field) ==
    IF field \in {"latency_std", "latency_ci_lower", "latency_ci_upper",
                  "throughput_std", "throughput_ci_lower", "throughput_ci_upper"}
    THEN Surd(Zero, Zero, Zero) ELSE Zero

\* C2: for a list of n > 0 records of which k failed, analyze_metrics returns
\* error_rate = k/n, the latency and throughput statistics are those of the
\* n-k error-free records alone, and for k = n it does not raise but returns
\* 0-valued latency and throughput statistics with error_rate = 1.
C2_ErrorRateAndSuccessOnlyStats ==
    (Analysed /\ Len(sMetrics) > 0) =>
        LET n == Len(sMetrics)
            k == Len(SelectSeq(sMetrics, DidRaise))
            good == SelectSeq(sMetrics, NotRaised)
            alone == IF k < n THEN Summarize(good) ELSE ZeroResult
        IN  /\ sResult.ok
            /\ sResult.val.error_rate = Norm(k, n)
            /\ sResult.val.total_errors = k
            /\ k = n => /\ sResult.val.error_rate = Rat(1)
                        /\ \A f \in LatencyThroughputFields :
                              sResult.val[f] = ZeroOf(f)
            /\ k < n => \A f \in LatencyThroughputFields :
                              sResult.val[f] = alone[f]

\* a list with a failure whose error string is empty, a failure-free part
\* and two different latencies among the successes
C2_Witness ==
    /\ sPc = "analysed" /\ sResult.ok
    /\ sResult.val.total_errors = 1
    /\ sResult.val.sample_count = 3
    /\ sResult.val.latency_std.rad # Zero

C2_WitnessAllFailed ==
    /\ sPc = "analysed" /\ sResult.ok
    /\ sResult.val.total_errors = 2 /\ sResult.val.sample_count = 2

\* C7 as stated: analysing a permutation of a non-empty list gives the same
\* output, every field of the result included.
C7_SameOutputAfterReorder ==
    (sPc = "reanalysed" /\ Len(sMetrics) > 0) => sResult = sFirst

\* C7 amended: analysing a permutation of a non-empty list gives the same
\* result in every field except test_duration_seconds.
C7_SameStatisticsAfterReorder ==
    (sPc = "reanalysed" /\ Len(sMetrics) > 0) =>
        /\ sResult.ok /\ sFirst.ok
        /\ \A f \in DOMAIN sResult.val \ {"test_duration_seconds"} :
              sResult.val[f] = sFirst.val[f]

\* a reordering that moved the first or last record: the duration changed
C7_Witness ==
    /\ sPc = "reanalysed" /\ Len(sMetrics) = 3
    /\ sResult.val.test_duration_seconds # sFirst.val.test_duration_seconds
    /\ sResult.val.latency_std.rad # Zero

\* ------------------------------------------------------------------------
\* Claims about run_load_test and measure_operation (SpecLoad)
\* ------------------------------------------------------------------------
Tasks == 1..concurrent_users

\* C3: for every U >= 0 and S >= 0, whether or not measured actions raise,
\* run_load_test returns (it does not raise) and returns exactly U*S records.
C3_ReturnsUTimesS ==
    /\ lPc # "raised"
    /\ lPc = "returned" => Len(lReturned) = concurrent_users * samples_per_user

\* a full run in which an action raised
C3_Witness ==
    /\ lPc = "returned"
    /\ concurrent_users = MaxUsers /\ samples_per_user = MaxSamples
    /\ Len(lReturned) = MaxUsers * MaxSamples
    /\ \E i \in 1..Len(lReturned) : lReturned[i].raised

C3_WitnessNoUsers ==
    lPc = "returned" /\ concurrent_users = 0 /\ samples_per_user = MaxSamples

\* C4: every measure_operation call awaits the action once and yields one
\* metric; an exception of the action does not leave measure_operation, the
\* metric's error is the exception's message and its latency is the time
\* from the start of the measurement to the failure.
C4_OneMetricPerCall ==
    \A u \in Users :
        /\ uPc[u] # "failed"
        /\ calls[u] = Len(user_metrics[u]) + (IF uPc[u] = "in_action" THEN 1 ELSE 0)
        /\ \A i \in 1..Len(user_metrics[u]) :
              LET m == user_metrics[u][i]
              IN  /\ m.raised => m.error = Some(m.cause)
                  /\ ~m.raised => m.error = None
                  /\ m.latency_ms = Rat((m.timestamp - m.started) * MsPerTick)

\* an action that raised "boom" one tick after the measurement started
C4_Witness ==
    \E u \in Users : \E i \in 1..Len(user_metrics[u]) :
        LET m == user_metrics[u][i]
        IN  m.raised /\ m.error = Some("boom") /\ m.latency_ms = Rat(MsPerTick)

\* C5 as stated: whenever the timed action raises, whatever its message, the
\* metric has a non-empty error field, the failure is not propagated, and
\* the record counts as failed in analyze_metrics' error_rate.
C5_RaisedMeansNonEmptyError ==
    /\ lPc # "raised"
    /\ \A u \in Users :
          /\ uPc[u] # "failed"
          /\ \A i \in 1..Len(user_metrics[u]) :
                user_metrics[u][i].raised =>
                    /\ user_metrics[u][i].error # None
                    /\ user_metrics[u][i].error # Some("")
    /\ (lPc = "returned" /\ Len(lReturned) > 0) =>
          LET k == Len(SelectSeq(lReturned, DidRaise))
              r == analyze_metrics(lReturned)
          IN  /\ r.ok
              /\ r.val.total_errors = k
              /\ r.val.error_rate = Norm(k, Len(lReturned))

RECURSIVE ListsOf(_)
ListsOf(tasks) ==
    IF tasks = <<>> THEN <<>> ELSE user_metrics[Head(tasks)] \o ListsOf(Tail(tasks))

\* every record of a private list belongs to its task, in order of production;
\* the shared list is the lists of the collected tasks, one after the other
C9_Lists ==
    /\ \A u \in Users : \A i \in 1..Len(user_metrics[u]) :
          user_metrics[u][i].user = u /\ user_metrics[u][i].seq = i
    /\ metrics = ListsOf(collected)
    /\ \A i, j \in 1..Len(collected) : collected[i] = collected[j] => i = j
    /\ lPc = "returned" =>
          \A u \in Tasks : \A i \in 1..samples_per_user :
              Cardinality({j \in 1..Len(lReturned) :
                  lReturned[j].user = u /\ lReturned[j].seq = i}) = 1

\* a step that changes a private list is that task appending one record and
\* leaves the shared list alone; a step that changes the shared list appends
\* the whole list of a completed task and leaves the private lists alone
C9_Steps ==
    /\ \A u \in Users : user_metrics'[u] # user_metrics[u] =>
          /\ uPc[u] = "in_action"
          /\ Len(user_metrics'[u]) = Len(user_metrics[u]) + 1
          /\ SubSeq(user_metrics'[u], 1, Len(user_metrics[u])) = user_metrics[u]
          /\ \A v \in Users \ {u} : user_metrics'[v] = user_metrics[v]
          /\ metrics' = metrics
    /\ metrics' # metrics =>
          /\ user_metrics' = user_metrics
          /\ \E u \in Users : uPc[u] = "done" /\ metrics' = metrics \o user_metrics[u]

\* C9: a user task writes only to its own list; the shared list is changed
\* only by the driver appending the whole list of a completed task; no
\* record is lost, duplicated or attributed to another task.
C9_PrivateListsThenDriverAppends == []C9_Lists /\ [][C9_Steps]_vars

\* both tasks collected, the one that was created last first
C9_Witness ==
    /\ lPc = "returned" /\ samples_per_user = MaxSamples
    /\ Len(collected) >= 2 /\ collected[1] > collected[2]
    /\ Len(metrics) = MaxUsers * MaxSamples

\* ------------------------------------------------------------------------
\* Claims about the hook entry points (SpecHook)
\* ------------------------------------------------------------------------
\* C6: whatever is on stdin (JSON of any shape, or no JSON), and whether or
\* not building or saving the event raises, the hook prints one JSON object
\* whose "proceed" is true and exits with status 0, never with status 1.
C6_HookAlwaysProceeds ==
    /\ hExit \in {-1, 0}
    /\ hPc = "exited" =>
          /\ hExit = 0
          /\ Len(hStdout) = 1
          /\ "proceed" \in DOMAIN hStdout[1]
          /\ hStdout[1].proceed = TRUE

\* a run of pre_edit whose handler failed on a file_paths that has no len()
C6_Witness ==
    /\ hPc = "exited" /\ hHook = "pre_edit" /\ hStdin.wellformed
    /\ hStdin.top = "object" /\ hStdin.tool_input # None
    /\ hStdin.tool_input[1].kind = "dict"
    /\ "file_paths" \in DOMAIN hStdin.tool_input[1].items
    /\ "error" \in DOMAIN hStdout[1] /\ "event_logged" \in DOMAIN hStdout[1]

C6_WitnessMalformed ==
    hPc = "exited" /\ hHook = "pre_agent_spawn" /\ ~hStdin.wellformed

C6_WitnessSaveRaises ==
    /\ hPc = "exited" /\ hSaveRaises /\ ~hSaved
    /\ "event_logged" \in DOMAIN hStdout[1] /\ hStdout[1].event_logged

\* ------------------------------------------------------------------------
\* Claims about ComparisonAnalyzer.compare_systems (SpecCompare)
\* ------------------------------------------------------------------------
\* C10 as stated: when a current latency, throughput or memory mean is zero
\* (as in the summary of an all-failed run), compare_systems does not crash:
\* it returns a comparison.
C10_ZeroCurrentDoesNotCrash ==
    cPc = "done" => cOut.ok

\* the comparison of one current summary with one target summary of the same
\* operation has returned
Compared ==
    /\ cPc = "done"
    /\ Len(cCurrent) = 1 /\ Len(cTarget) = 1
    /\ cCurrent[1].operation = cTarget[1].operation

\* the entry of that comparison
Entry == cOut.val.detailed_comparison[cCurrent[1].operation]

\* x rounded to one decimal place is whole (90.0 for whole = 90)
RoundsTo(x, whole) ==
    /\ RLe(Norm(whole * 100 - 5, 100), x)
    /\ RLt(x, Norm(whole * 100 + 5, 100))

\* the end-to-end scenario: p95 (and mean) latency 245.8 ms against 24.6 ms,
\* mean throughput 12.5 ops/s against 62.5 ops/s
Scenario ==
    /\ Compared
    /\ cCurrent[1] = SummaryOf("search", Norm(2458, 10), Norm(125, 10), Rat(8))
    /\ cTarget[1] = SummaryOf("search", Norm(246, 10), Norm(625, 10), Rat(4))

C12_TenthMeetsNinthDoesNot ==
    Compared =>
        /\ cTarget[1].latency_p95 = RDiv(cCurrent[1].latency_p95, Rat(10))
              => cOut.ok /\ Entry.meets_target_10x_search_latency
        /\ cTarget[1].latency_p95 = RDiv(cCurrent[1].latency_p95, Rat(9))
              => cOut.ok /\ ~Entry.meets_target_10x_search_latency

\* the sign of a rational
Positive(x) == x[1] > 0
RAbs(x) == <<Abs(x[1]), x[2]>>

\* C13 as stated: where a comparison is produced, each improvement times
\* the current value is the difference named by the claim, and a latency
\* decrease, a memory decrease and a throughput increase are each reported
\* as a positive improvement.
C13_DecreaseIsPositiveImprovement ==
    (Compared /\ cOut.ok) =>
        LET cur == cCurrent[1]
            tgt == cTarget[1]
        IN  /\ RMul(Entry.latency_improvement_percent, cur.latency_mean)
                  = RMul(Rat(100), RSub(cur.latency_mean, tgt.latency_mean))
            /\ RMul(Entry.memory_improvement_percent, cur.memory_usage_mean_mb)
                  = RMul(Rat(100), RSub(cur.memory_usage_mean_mb,
                                        tgt.memory_usage_mean_mb))
            /\ RMul(Entry.throughput_improvement_percent, cur.throughput_mean)
                  = RMul(Rat(100), RSub(tgt.throughput_mean, cur.throughput_mean))
            /\ RLt(tgt.latency_mean, cur.latency_mean)
                  => Positive(Entry.latency_improvement_percent)
            /\ RLt(tgt.memory_usage_mean_mb, cur.memory_usage_mean_mb)
                  => Positive(Entry.memory_improvement_percent)
            /\ RLt(cur.throughput_mean, tgt.throughput_mean)
                  => Positive(Entry.throughput_improvement_percent)

\* C14 as stated: where a comparison is produced, the 5x throughput flag is
\* true exactly when the target's mean throughput is at least five times
\* the current one, and the memory flag is true exactly when the target's
\* mean memory usage lies below the current one by at least half of the
\* current one's size.
C14_FlagsAreThresholdComparisons ==
    (Compared /\ cOut.ok) =>
        LET cur == cCurrent[1]
            tgt == cTarget[1]
        IN  /\ Entry.meets_target_5x_storage_throughput
                  <=> 5 * cur.throughput_mean[1] * tgt.throughput_mean[2]
                        <= tgt.throughput_mean[1] * cur.throughput_mean[2]
            /\ Entry.meets_target_50_percent_memory_reduction
                  <=> RLe(RMul(Norm(1, 2), RAbs(cur.memory_usage_mean_mb)),
                          RSub(cur.memory_usage_mean_mb, tgt.memory_usage_mean_mb))

\* ------------------------------------------------------------------------
\* Further claims about StatisticalAnalyzer.analyze_metrics (SpecStats)
\* ------------------------------------------------------------------------
\* the latencies and throughputs of the records whose action did not raise
GoodLatencies ==
    LET good == SelectSeq(sMetrics, NotRaised)
    IN  [i \in 1..Len(good) |-> good[i].latency_ms]
GoodThroughputs ==
    LET good == SelectSeq(sMetrics, NotRaised)
    IN  [i \in 1..Len(good) |-> good[i].throughput_ops_per_sec]

\* the interval lower..upper, each base + coef * sqrt(rad), has width 0
ZeroWidth(lower, upper) == lower = upper
\* the interval has a strictly positive width and holds the value mean
PositiveWidthAround(lower, upper, mean) ==
    /\ lower.base = mean /\ upper.base = mean
    /\ lower.rad = upper.rad /\ Positive(upper.rad)
    /\ Positive(upper.coef) /\ lower.coef = RSub(Zero, upper.coef)
Varies(data) == \E i, j \in 1..Len(data) : data[i] # data[j]

\* C15: the confidence intervals of the summary have width 0 when fewer
\* than two values enter them, and a strictly positive width around the
\* mean when two or more values that are not all identical enter them.
C15_ConfidenceIntervalWidth ==
    (Analysed /\ Len(sMetrics) > 0) =>
        LET r == sResult.val
        IN  /\ sResult.ok
            /\ (r.sample_count < 2 \/ Len(GoodLatencies) < 2) =>
                  /\ ZeroWidth(r.latency_ci_lower, r.latency_ci_upper)
                  /\ ZeroWidth(r.throughput_ci_lower, r.throughput_ci_upper)
            /\ Varies(GoodLatencies) =>
                  PositiveWidthAround(r.latency_ci_lower, r.latency_ci_upper,
                                      r.latency_mean)
            /\ Varies(GoodThroughputs) =>
                  PositiveWidthAround(r.throughput_ci_lower,
                                      r.throughput_ci_upper, r.throughput_mean)

\* exactly two successes of different latency next to a failure
C15_Witness ==
    /\ sPc = "analysed" /\ Len(sMetrics) = 3 /\ Len(GoodLatencies) = 2
    /\ Varies(GoodLatencies)
    /\ Positive(sResult.val.latency_ci_upper.rad)

\* p95 <= p99 and both lie between two of the given latencies
PercentilesWithin(r, latencies) ==
    /\ RLe(r.latency_p95, r.latency_p99)
    /\ \E i \in 1..Len(latencies) : RLe(latencies[i], r.latency_p95)
    /\ \E j \in 1..Len(latencies) : RLe(r.latency_p99, latencies[j])

\* C16 as stated: for any metric list that analyze_metrics accepts,
\* latency_p95 <= latency_p99 and both lie within the smallest and the
\* largest of the latencies.
C16_PercentilesWithinLatencies ==
    (Analysed /\ Len(sMetrics) > 0) =>
        /\ sResult.ok
        /\ PercentilesWithin(sResult.val, GoodLatencies)

\* C16 amended: for any accepted metric list with at least one successful
\* record, latency_p95 <= latency_p99 and both lie within the smallest and
\* the largest latency of the successful records; for a list of failures
\* only, both are 0.
C16_PercentilesWithinSuccessLatencies ==
    (Analysed /\ Len(sMetrics) > 0) =>
        /\ sResult.ok
        /\ Len(GoodLatencies) > 0 => PercentilesWithin(sResult.val, GoodLatencies)
        /\ Len(GoodLatencies) = 0 =>
              sResult.val.latency_p95 = Zero /\ sResult.val.latency_p99 = Zero

\* three successes of which the largest latency comes first: p95 and p99
\* interpolate strictly between the two largest
C16_Witness ==
    /\ Analysed /\ Len(GoodLatencies) = 3
    /\ RLt(GoodLatencies[2], GoodLatencies[1])
    /\ RLt(sResult.val.latency_p95, sResult.val.latency_p99)
    /\ RLt(sResult.val.latency_p99, GoodLatencies[1])

\* C17: for a non-empty list of records that all succeeded (and share one
\* operation label), latency_mean times the number of records is the sum of
\* their latencies, and error_rate is 0.
C17_MeanOfSuccessfulList ==
    (Analysed /\ Len(sMetrics) > 0 /\ Len(GoodLatencies) = Len(sMetrics)
        /\ \A i \in 1..Len(sMetrics) : sMetrics[i].operation = sMetrics[1].operation)
    =>
        /\ sResult.ok
        /\ RMul(sResult.val.latency_mean, Rat(Len(sMetrics)))
              = RSum([i \in 1..Len(sMetrics) |-> sMetrics[i].latency_ms])
        /\ sResult.val.error_rate = Zero

\* three successes whose mean latency differs from their median
C17_Witness ==
    /\ sPc = "analysed" /\ Len(sMetrics) = 3 /\ Len(GoodLatencies) = 3
    /\ sResult.val.latency_mean # sResult.val.latency_median
    /\ sResult.val.error_rate = Zero

\* C18: test_duration_seconds is the timestamp of the last element of the
\* list as given minus that of its first element, in seconds; the list is
\* not sorted.
C18_DurationLastMinusFirst ==
    (Analysed /\ Len(sMetrics) > 0) =>
        /\ sResult.ok
        /\ RMul(sResult.val.test_duration_seconds, Rat(TicksPerSecond))
              = Rat(sMetrics[Len(sMetrics)].timestamp - sMetrics[1].timestamp)

\* a list whose first record is timestamped after its last one
C18_Witness ==
    /\ Analysed /\ Len(sMetrics) = 3
    /\ sMetrics[1].timestamp > sMetrics[3].timestamp
    /\ sResult.val.test_duration_seconds = Norm(-1, 10)

\* ------------------------------------------------------------------------
\* Further claims about MemoryMCPBenchmark.run_load_test (SpecLoad)
\* ------------------------------------------------------------------------
\* C19: within one user task the measurements are strictly sequential with
\* a pacing delay between consecutive ones: at most one is in progress, a
\* measurement starts only after the previous one has ended and the sleep
\* of at least SleepMin that followed it is over.
C19_SequentialWithPacing ==
    \A u \in Users :
        LET um == user_metrics[u]
        IN  /\ calls[u] = Len(um) + (IF uPc[u] = "in_action" THEN 1 ELSE 0)
            /\ \A i \in 1..Len(um) :
                  /\ um[i].seq = i /\ um[i].started <= um[i].timestamp
                  /\ i > 1 => um[i].started >= um[i - 1].timestamp + SleepMin
            /\ (uPc[u] = "in_action" /\ Len(um) > 0) =>
                  /\ uStart[u] >= uWake[u]
                  /\ uWake[u] >= um[Len(um)].timestamp + SleepMin

\* the second measurement of user 2 starts between the two measurements of
\* user 1, which are one long pacing delay apart
C19_Witness ==
    /\ concurrent_users = 2
    /\ Len(user_metrics[1]) = 2 /\ Len(user_metrics[2]) = 2
    /\ user_metrics[1][1].timestamp < user_metrics[2][2].started
    /\ user_metrics[2][2].started < user_metrics[1][2].started
    /\ user_metrics[1][2].started = user_metrics[1][1].timestamp + SleepMax

\* C20 as stated: the list returned by run_load_test for U >= 1 and S >= 1
\* is summarised with test_duration_seconds >= 0: its last record is not
\* timestamped before its first.
C20_ReturnedDurationNotNegative ==
    (lPc = "returned" /\ concurrent_users >= 1 /\ samples_per_user >= 1) =>
        /\ analyze_metrics(lReturned).ok
        /\ RLe(Zero, analyze_metrics(lReturned).val.test_duration_seconds)
        /\ lReturned[1].timestamp <= lReturned[Len(lReturned)].timestamp

\* ------------------------------------------------------------------------
\* Further claims about ComparisonAnalyzer.compare_systems (SpecCompare)
\* ------------------------------------------------------------------------
\* the operation labels of a result list, and the last result of a label
LabelsOf(results) == {results[i].operation : i \in 1..Len(results)}
LastOf(results, op) ==
    LET ix == {i \in 1..Len(results) : results[i].operation = op}
    IN  results[CHOOSE i \in ix : \A j \in ix : j <= i]

C22_WitnessOneSided ==
    /\ cPc = "done" /\ cOut.ok
    /\ Len(cCurrent) = 2 /\ Len(cTarget) = 1
    /\ cCurrent[1].operation # cTarget[1].operation
    /\ cCurrent[1].latency_mean = Zero
    /\ DOMAIN cOut.val.detailed_comparison = {cCurrent[2].operation}

\* C23: in the returned list the records of one user form one contiguous
\* block in the order of their production, and the block of a user whose
\* task finished earlier (its last pacing delay ended earlier) comes before
\* the block of a user whose task finished later.
C23_BlocksInCompletionOrder ==
    lPc = "returned" =>
        \A i, j \in 1..Len(lReturned) : i < j =>
            IF lReturned[i].user = lReturned[j].user
            THEN /\ lReturned[i].seq < lReturned[j].seq
                 /\ \A k \in i..j : lReturned[k].user = lReturned[i].user
            ELSE uWake[lReturned[i].user] <= uWake[lReturned[j].user]

\* two users with two records each, of which user 2 finished strictly
\* before user 1 and so comes first
C23_Witness ==
    /\ lPc = "returned" /\ Len(lReturned) = 4
    /\ uWake[2] < uWake[1]
    /\ lReturned[1].user = 2 /\ lReturned[2].user = 2
    /\ lReturned[3].user = 1 /\ lReturned[4].user = 1
    /\ lReturned[1].seq = 1 /\ lReturned[2].seq = 2

\* base + coef * sqrt(rad) is at most x, or at least x, for an interval
\* bound that is a plain number or lies around x
AtMost(bound, x) ==
    IF bound.coef = Zero THEN RLe(bound.base, x)
    ELSE bound.base = x /\ ~Positive(bound.coef)
AtLeast(bound, x) ==
    IF bound.coef = Zero THEN RLe(x, bound.base)
    ELSE bound.base = x /\ Positive(bound.coef)
Brackets(r) ==
    /\ AtMost(r.latency_ci_lower, r.latency_mean)
    /\ AtLeast(r.latency_ci_upper, r.latency_mean)
    /\ AtMost(r.throughput_ci_lower, r.throughput_mean)
    /\ AtLeast(r.throughput_ci_upper, r.throughput_mean)

\* C24 as stated: in every BenchmarkResult that analyze_metrics returns the
\* confidence bounds bracket the mean, for latency and for throughput, also
\* with fewer than two successful samples.
C24_IntervalBracketsMean ==
    (Analysed /\ Len(sMetrics) > 0) => sResult.ok /\ Brackets(sResult.val)

\* C24 amended: the confidence bounds bracket the mean when two or more
\* samples succeeded and when none did (all are 0); with exactly one
\* successful sample both bounds are 0 while the mean is that sample, so
\* they bracket it only if the sample is 0.
C24_IntervalBracketsMeanUnlessSingle ==
    (Analysed /\ Len(sMetrics) > 0) =>
        LET r == sResult.val
            zero == Surd(Zero, Zero, Zero)
        IN  /\ sResult.ok
            /\ Len(GoodLatencies) # 1 => Brackets(r)
            /\ Len(GoodLatencies) = 1 =>
                  /\ r.latency_ci_lower = zero /\ r.latency_ci_upper = zero
                  /\ r.throughput_ci_lower = zero /\ r.throughput_ci_upper = zero
                  /\ r.latency_mean = GoodLatencies[1]
                  /\ r.throughput_mean = GoodThroughputs[1]
                  /\ Brackets(r) <=>
                        (GoodLatencies[1] = Zero /\ GoodThroughputs[1] = Zero)

\* one success of 100 ms next to a failure: bounds 0 and 0, mean 100 ms
C24_Witness ==
    /\ sPc = "analysed" /\ Len(sMetrics) = 2 /\ Len(GoodLatencies) = 1
    /\ sResult.val.latency_mean = Rat(100)
    /\ sResult.val.latency_ci_upper = Surd(Zero, Zero, Zero)
    /\ ~Brackets(sResult.val)

\* ------------------------------------------------------------------------
\* Further claims about the hooks (SpecHook)
\* ------------------------------------------------------------------------
\* the hook printed the result of its handler
Handled == hPc = "exited" /\ "event_logged" \in DOMAIN hStdout[1]

\* C25 as stated: the event_logged field of a handler's result is true
\* exactly when the save of the event completed without an exception; when
\* the save raised it is false, with proceed true.
C25_EventLoggedIffSaved ==
    Handled =>
        /\ hStdout[1].proceed
        /\ hStdout[1].event_logged <=> hSaved

\* the task description on stdin: the prompt, or the description when the
\* prompt is missing or empty
DescriptionOnStdin ==
    LET items == hStdin.tool_input[1].items
        prompt == IF "prompt" \in DOMAIN items THEN items.prompt ELSE J("str", 0)
    IN  IF prompt.kind # "null" /\ prompt.n # 0 THEN prompt
        ELSE IF "description" \in DOMAIN items THEN items.description
        ELSE J("str", 0)
StringOnStdin ==
    /\ hPc = "exited" /\ hHook = "pre_agent_spawn"
    /\ hStdin.wellformed /\ hStdin.top = "object"
    /\ hStdin.tool_input # None /\ hStdin.tool_input[1].kind = "dict"
    /\ DescriptionOnStdin.kind = "str"

\* C29: for a task description that is a string of L characters, unless the
\* construction of the event raises, handle_pre_agent_spawn returns
\* task_length = L and estimated_complexity "high" for L > 500, "medium"
\* for 100 < L <= 500 and "low" for L <= 100.
C29_ComplexityByLength ==
    (StringOnStdin /\ ~hBuildRaises) =>
        LET L == DescriptionOnStdin.n
            r == hStdout[1]
        IN  /\ DOMAIN r = {"proceed", "task_length", "estimated_complexity",
                            "event_logged"}
            /\ r.task_length = L
            /\ L > 500 => r.estimated_complexity = "high"
            /\ (100 < L /\ L <= 500) => r.estimated_complexity = "medium"
            /\ L <= 100 => r.estimated_complexity = "low"

\* an empty prompt and a description of exactly 500 characters: medium
C29_Witness ==
    /\ StringOnStdin /\ ~hBuildRaises
    /\ "prompt" \in DOMAIN hStdin.tool_input[1].items
    /\ hStdin.tool_input[1].items.prompt = J("str", 0)
    /\ DescriptionOnStdin.n = 500
    /\ hStdout[1].estimated_complexity = "medium"

\* ------------------------------------------------------------------------
\* Claims about ProductionTargets.evaluate_results (SpecTargets)
\* ------------------------------------------------------------------------
\* the p95 latency limit of an operation that has one, in ms
LimitOf(op) ==
    CASE op = "memory_store" -> 100
      [] op = "memory_search" -> 50
      [] op = "memory_update" -> 200
      [] op = "memory_retrieve" -> 30
HasLimit(op) ==
    op \in {"memory_store", "memory_search", "memory_update", "memory_retrieve"}

\* C26: the evaluation holds, for every result (the last one of its label
\* where several share it), <operation>_error_rate_met = (error_rate <=
\* 0.01) and <operation>_concurrent_users_met = (concurrent_users >= 100),
\* and <operation>_p95_latency_met = (latency_p95 <= limit) for the four
\* operations with a limit and for no other label; it holds no other key.
C26_TargetsPerResult ==
    tPc = "done" =>
        LET keys(op) == {op \o "_error_rate_met", op \o "_concurrent_users_met"}
                        \cup (IF HasLimit(op) THEN {op \o "_p95_latency_met"}
                              ELSE {})
        IN  /\ DOMAIN tOut = UNION {keys(op) : op \in LabelsOf(tResults)}
            /\ \A op \in LabelsOf(tResults) :
                  LET r == LastOf(tResults, op)
                  IN  /\ tOut[op \o "_error_rate_met"]
                            = (r.error_rate[1] * 100 <= r.error_rate[2])
                      /\ tOut[op \o "_concurrent_users_met"]
                            = (r.concurrent_users >= 100)
                      /\ HasLimit(op) =>
                            tOut[op \o "_p95_latency_met"]
                                = (r.latency_p95[1] <= LimitOf(op) * r.latency_p95[2])

\* a memory_search result exactly at its limit, at the maximal error rate
\* and below the supported concurrency, next to a label without a limit
C26_Witness ==
    /\ tPc = "done" /\ Len(tResults) = 2
    /\ tResults[1].operation = "memory_search"
    /\ tResults[1].latency_p95 = Rat(50)
    /\ tResults[1].error_rate = Norm(1, 100)
    /\ tResults[1].concurrent_users = 99
    /\ tResults[2].operation = "target_search"
    /\ tOut["memory_search_p95_latency_met"] /\ tOut["memory_search_error_rate_met"]
    /\ ~tOut["memory_search_concurrent_users_met"]
    /\ "target_search_p95_latency_met" \notin DOMAIN tOut

C27_WitnessFullId ==
    /\ mLast.op = "update" /\ mLast.result
    /\ mock_memory_store # mLast.before

\* ------------------------------------------------------------------------
\* Claims about validate_all_pain_points (SpecPain)
\* ------------------------------------------------------------------------
\* C28: validate_all_pain_points returns exactly ten entries, keyed 1 to 10;
\* whatever the random choices of the mock operations were, every entry
\* has reproduced = true, and entry 6 carries the flag of entry 1.
C28_TenEntriesAllReproduced ==
    pPc = "done" =>
        /\ DOMAIN pain_points_results = 1..10
        /\ \A k \in 1..10 : pain_points_results[k].reproduced = TRUE
        /\ pain_points_results[6].reproduced = pain_points_results[1].reproduced

\* a validation has returned in which the type filter happened to work
\* (the four notes of the five records) and the update with the short id
\* had failed
C28_Witness ==
    /\ pPc = "done"
    /\ pain_points_results[3].actual_filtered_count = 4
    /\ pain_points_results[3].empty_query_count = 3
    /\ pain_points_results[1].update_failed
    /\ pain_points_results[1].short_id = Prefix8(pain_points_results[1].full_id)

\* ------------------------------------------------------------------------
\* Claims about run_performance_baseline_suite (SpecSuite)
\* ------------------------------------------------------------------------
\* C21: after a completed run of the suite, detailed_comparison holds for
\* each of store, search, update and retrieve an entry that compares the
\* current summary of the operation with its target summary, and the
\* report's Performance Comparison table has a row.
C21_EveryOperationCompared ==
    suPc = "done" =>
        LET detailed == suResults.comparison_analysis.detailed_comparison
        IN  /\ \A i \in 1..Len(Operations) :
                  \E key \in DOMAIN detailed :
                      /\ key \in {Operations[i], "current_" \o Operations[i],
                                   "target_" \o Operations[i]}
                      /\ detailed[key] =
                            ComparisonEntry(
                              by_op(suCurrent)["current_" \o Operations[i]],
                              by_op(suTarget)["target_" \o Operations[i]])
            /\ suRows # {}

\* ------------------------------------------------------------------------
\* Claims about memory_mcp_flow0_direct.main (SpecFlow)
\* ------------------------------------------------------------------------
\* the ids of the research nodes
ResearchIds == {fResearch[i] : i \in 1..Len(fResearch)}

\* the ids of the aggregations in the graph
SynthesisIds == {n \in DOMAIN fGraph : fGraph[n].operation = "aggregate"}

\* C30: the phases of main run in the order planning, research, synthesis:
\* the first flow run holds the root alone; at most 6 requests of the plan
\* become research nodes, the first 6, each depending on the root; the
\* synthesis is in the graph only after a flow run over the root and all
\* research nodes has finished, aggregates exactly the research nodes, and
\* is run only by the third flow run; when an exception was caught main
\* has returned None, and it returns the synthesis result only after the
\* three runs.
C30_PhasesInOrder ==
    /\ Len(fResearch) <= 6 /\ Len(fResearch) <= Len(fPlan)
    /\ \A i \in 1..Len(fResearch) :
          /\ fGraph[fResearch[i]].depends_on = {Root}
          /\ fGraph[fResearch[i]].branch = fPlan[i]
    /\ Len(fFlows) <= 3
    /\ Len(fFlows) >= 1 => fFlows[1] = {Root}
    /\ Len(fFlows) >= 2 => fFlows[2] = {Root} \cup ResearchIds
    /\ Len(fFlows) >= 3 => fFlows[3] = {Root} \cup ResearchIds \cup SynthesisIds
    /\ \A n \in SynthesisIds :
          /\ Len(fFlows) >= 2
          /\ Len(fResearch) = IF Len(fPlan) < 6 THEN Len(fPlan) ELSE 6
          /\ fGraph[n].depends_on = ResearchIds
          /\ SynthesisIds = {n}
    /\ fPc = "caught" => fReturn = None
    /\ fPc = "returned" =>
          /\ fReturn = Some("result_synthesis")
          /\ Len(fFlows) = 3 /\ SynthesisIds # {}
    /\ fPc \in {"planning", "research", "synthesis", "caught", "returned"}

\* main has returned the synthesis of a plan of 8 requests, of which 6
\* became research nodes
C30_Witness ==
    /\ fPc = "returned" /\ Len(fPlan) = 8 /\ Len(fResearch) = 6
    /\ Len(fFlows) = 3

\* an exception was caught after the research run and before the synthesis
\* was run: main has returned None
C30_WitnessCaught ==
    /\ fPc = "caught" /\ Len(fFlows) = 2 /\ fReturn = None
    /\ Len(fResearch) = 6

====
